---- MODULE Spec2Model ----
(***************************************************************************)
(* Model of the consultation server src/server/index.js: the in-memory     *)
(* stores rooms, users and roomInvitations, the HTTP handlers create-room, *)
(* validate-room, delete-room and upload, and the socket.io handlers       *)
(* join-room, chat-message, start/end-video-call and disconnect.           *)
(*                                                                         *)
(* Every handler runs to completion up to its next await; an await is a    *)
(* pending record that a later action resumes.  Strings that the code      *)
(* lower-cases, searches or measures are tuples of one-character strings.  *)
(* What the server emits is appended to the receiving socket's inbox.      *)
(***************************************************************************)
EXTENDS Integers, Sequences, FiniteSets, TLC

\* ------------------------------------------------------------------ bounds
NConns == 2          \* socket ids the model hands out
MaxClock == 2        \* values of Date.now() (and so room ids)
MaxMsgs == 2         \* chat-message events handled
MaxUploads == 2      \* POST /upload requests
MaxCreates == 2      \* POST /api/create-room requests
MaxHttp == 1         \* validate-room and delete-room requests
MaxVideo == 1        \* start-video-call and end-video-call events handled
MaxVideoCall == 3    \* video events handled beside joins: a join, a start, an end
MaxTyping == 1       \* typing events handled
MaxDocs == 2         \* request-documentation events handled
MaxJoins == 3        \* join-room events handled
MaxJoinsUpload == 2  \* join-room events handled beside an upload
MaxUploadsJoined == 1 \* POST /upload requests beside sockets that join and leave
MaxJoinsMetrics == 1 \* join-room events handled beside several uploads
MaxUploadsTemporal == 3 \* POST /upload requests into one room, each analysed
MaxJoinsRoom == 2    \* join-room events handled beside room requests
MaxCreatesRoom == 1  \* POST /api/create-room requests beside joins and video events
MaxJoinsDeletion == 1 \* join-room events handled beside a deletion
MaxMsgsDeletion == 1 \* chat-message events handled beside a deletion
MaxScans == 3        \* detectEmergency calls
MaxChecks == 13      \* checkSocketRateLimit calls
MaxRateClock == 3    \* values of Date.now() beside rate checks

Conns == 1..NConns
RoomIds == 1..MaxClock
\* stands for the room id `undefined`
NoRoomId == 0

\* ------------------------------------------------------------------ strings
\* JavaScript's undefined, comparable with the character strings below, and
\* null, comparable with the nicknames and avatar urls of the presence slots
Undefined == <<"undefined">>
Null == "null"

LowerChar(ch) ==
  CASE ch = "A" -> "a"
    [] ch = "I" -> "i"
    [] ch = "D" -> "d"
    [] ch = "P" -> "p"
    [] ch = "C" -> "c"
    [] ch = "S" -> "s"
    [] OTHER -> ch

\* String.prototype.toLowerCase
toLowerCase(s) == [i \in 1..Len(s) |-> LowerChar(s[i])]

\* e?.toLowerCase(): undefined stays undefined
toLowerCaseOpt(s) == IF s = Undefined THEN Undefined ELSE toLowerCase(s)

\* String.prototype.includes
includes(s, sub) ==
  \E i \in 0..(Len(s) - Len(sub)) : SubSeq(s, i + 1, i + Len(sub)) = sub

AtAi == <<"@", "a", "i">>

\* a test for "@ai" that forgets the case of the letters
isAiCallExact(message) == includes(message, AtAi)

\* message.toLowerCase().includes("@ai")
isAiCallOf(message) == includes(toLowerCase(message), AtAi)

\* ------------------------------------------------------------------ inputs
Roles == {"doctor", "patient"}
Nicknames == {"ann", "bob"}
Avatars == {"av1", "av2"}
\* the nickname, avatar and email a client sends with join-room
Identities ==
  {[nickname |-> "ann", avatarUrl |-> "av1", email |-> <<"d", "@", "x">>],
   [nickname |-> "bob", avatarUrl |-> "av2", email |-> <<"p", "@", "x">>],
   [nickname |-> "ann", avatarUrl |-> "av2", email |-> <<"o", "@", "x">>]}
Emails == {<<"d", "@", "x">>, <<"D", "@", "x">>, <<"p", "@", "x">>, <<"o", "@", "x">>}
ChatTexts == {<<"h", "i">>, <<"h", "@", "A", "I">>}

\* crypto.randomBytes(16).toString("hex"): the hashes the generator can return
Hashes == {"h1", "h2"}
\* keys every plain object inherits; never a generated hash
ProtoKeys == {"constructor"}
Tokens == Hashes \cup ProtoKeys

\* the source addresses of requests
Ips == {"ip1", "ip2"}

\* ------------------------------------------------------------------ values
NoRole == "none"
NoText == <<>>

\* a message of a room's log
Msg(role, nickname, content, forRole, isFile, analysis) ==
  [role |-> role, nickname |-> nickname, content |-> content,
   forRole |-> forRole, isFile |-> isFile, analysis |-> analysis,
   isPrivate |-> FALSE]

\* the messages the assistant writes carry isPrivate: true
private(m) == [m EXCEPT !.isPrivate = TRUE]

NoMsg == Msg("none", "none", NoText, NoRole, FALSE, NoText)

newRoom(patientEmail, doctorEmail) ==
  [messages |-> <<>>, files |-> <<>>,
   patient |-> Null, doctor |-> Null,
   patientAvatar |-> Null, doctorAvatar |-> Null,
   healthMetrics |-> <<>>,
   allowedPatientEmail |-> patientEmail, doctorEmail |-> doctorEmail,
   videoCallActive |-> FALSE, videoParticipants |-> <<>>]

\* what an event carries; unused parts are empty
Event(type, asRole, room, msg, messages, files) ==
  [type |-> type, asRole |-> asRole, room |-> room, msg |-> msg,
   messages |-> messages, files |-> files]

VARIABLES
  rooms,            \* roomId -> <<>> (absent) or <<room record>>
  users,            \* socket id -> <<>> (absent) or <<binding record>>
  userKeys,         \* Object.keys(users): the bound socket ids, in insertion order
  roomInvitations,  \* hash -> <<>> (absent) or <<invitation record>>
  now,              \* Date.now()
  sockets,          \* socket id -> "fresh" | "open" | "closed"
  joined,           \* socket id -> socket.io rooms it is in (socket.join)
  aiCalls,          \* in-flight getAIResponse calls of chat-message handlers
  uploads,          \* POST /upload handlers suspended at an await
  timers,           \* setTimeout callbacks of finished uploads, not yet run
  inbox,            \* history: socket id -> events the server emitted to it
  last,             \* history: the request handled last and its HTTP response
  faults,           \* history: handlers that ended in an uncaught TypeError
  aiSent,           \* history: <<socket id, message>> of every @ai chat-message
  lastGood,         \* history: roomId -> metrics of the last extraction that parsed
  handled,          \* how many requests of each kind were handled (bounds the model)
  answered,         \* history: ids of the POST /upload requests that got their response
  socketRateLimits, \* ip -> <<>> (no entry) or <<[count, resetTime]>>
  rateLog,          \* history: ip -> the checks made for it, [at, ok], in order
  emergencyCalls,   \* detectEmergency calls suspended at the classifier's await
  verdicts,         \* history: what every finished detectEmergency call returned
  docCalls          \* request-documentation handlers suspended at the model's await

\* the state of checkSocketRateLimit and detectEmergency, which no handler calls
uncalled == <<socketRateLimits, rateLog, emergencyCalls, verdicts>>

vars == <<rooms, users, userKeys, roomInvitations, now, sockets, joined, aiCalls,
          uploads, timers, inbox, last, faults, aiSent, lastGood, handled, answered,
          uncalled, docCalls>>

hasRoom(rs, r) == r \in RoomIds /\ rs[r] # <<>>
roomOf(rs, r) == rs[r][1]
hasUser(c) == users[c] # <<>>
userOf(c) == users[c][1]

roleOf(us, c) == IF us[c] = <<>> THEN NoRole ELSE us[c][1].role

\* io.to(roomId): the sockets in socket.io room roomId
inRoom(j, r) == {c \in Conns : r \in j[c]}

\* io.to(socketId): the socket itself while it is connected
toSocket(c) == IF sockets[c] = "open" THEN {c} ELSE {}

\* emit one event to every socket of `targets`, stamped with the role the
\* receiving socket is bound with at that moment
emit(inb, us, targets, type, room, msg, messages, files) ==
  [c \in Conns |->
     IF c \in targets
       THEN Append(inb[c], Event(type, roleOf(us, c), room, msg, messages, files))
       ELSE inb[c]]

\* the request handled last: a socket event of socket `sid` (status 0) or an
\* HTTP request (sid 0) with the status and body of its response
Op(op, sid, roomId, token, email, status, valid, role) ==
  [op |-> op, sid |-> sid, roomId |-> roomId, token |-> token, email |-> email,
   status |-> status, valid |-> valid, role |-> role, outcome |-> "none"]

\* the request handled last resumed after a model call that ended in `outcome`
withOutcome(o, outcome) == [o EXCEPT !.outcome = outcome]

SocketOp(op, sid, roomId) == Op(op, sid, roomId, "none", Undefined, 0, FALSE, NoRole)

count(kind) == [handled EXCEPT ![kind] = @ + 1]

Init ==
  /\ rooms = [r \in RoomIds |-> <<>>]
  /\ users = [c \in Conns |-> <<>>]
  /\ userKeys = <<>>
  /\ roomInvitations = [h \in Hashes |-> <<>>]
  /\ now = 1
  /\ sockets = [c \in Conns |-> "fresh"]
  /\ joined = [c \in Conns |-> {}]
  /\ aiCalls = {}
  /\ uploads = {}
  /\ timers = {}
  /\ inbox = [c \in Conns |-> <<>>]
  /\ last = SocketOp("none", 0, NoRoomId)
  /\ faults = {}
  /\ aiSent = {}
  /\ lastGood = [r \in RoomIds |-> <<>>]
  /\ handled = [joins |-> 0, chats |-> 0, uploads |-> 0, finished |-> 0,
                creates |-> 0, http |-> 0, video |-> 0, scans |-> 0, checks |-> 0,
                typing |-> 0, docs |-> 0]
  /\ answered = {}
  /\ socketRateLimits = [ip \in Ips |-> <<>>]
  /\ rateLog = [ip \in Ips |-> <<>>]
  /\ emergencyCalls = {}
  /\ verdicts = {}
  /\ docCalls = {}

\* io.on("connection"): socket ids are handed out once, lowest first
Connect(c) ==
  /\ sockets[c] = "fresh"
  /\ \A d \in Conns : d < c => sockets[d] # "fresh"
  /\ sockets' = [sockets EXCEPT ![c] = "open"]
  /\ last' = SocketOp("connection", c, NoRoomId)
  /\ UNCHANGED <<answered, uncalled, docCalls>>
  /\ UNCHANGED <<rooms, users, userKeys, roomInvitations, now, joined, aiCalls,
                 uploads, timers, inbox, faults, aiSent, lastGood, handled>>

\* a replay of the whole log, private messages of the other role included
unfilteredMessages(messages, role) == messages

\* the history filter of join-room
filteredMessages(messages, role) ==
  SelectSeq(messages,
    LAMBDA m : IF m.role # "AI Assistant" THEN TRUE
               ELSE m.forRole = NoRole \/ m.forRole = role)

\* the presence slot of a role: join-room and disconnect treat every role
\* other than "patient" as the doctor's
setSlot(room, role, nickname, avatarUrl) ==
  IF role = "patient"
    THEN [room EXCEPT !.patient = nickname, !.patientAvatar = avatarUrl]
    ELSE [room EXCEPT !.doctor = nickname, !.doctorAvatar = avatarUrl]

\* socket.on("join-room")
JoinRoom(c, roomId, nickname, role, avatarUrl, email) ==
  /\ sockets[c] = "open"
  /\ handled' = count("joins")
  /\ last' = SocketOp("join-room", c, roomId)
  /\ LET rooms1 == IF hasRoom(rooms, roomId) THEN rooms
                   ELSE [rooms EXCEPT ![roomId] = <<newRoom(Undefined, Undefined)>>]
         users1 == [users EXCEPT ![c] =
                      <<[roomId |-> roomId, nickname |-> nickname, role |-> role,
                         avatarUrl |-> avatarUrl, email |-> email]>>]
         room2 == setSlot(roomOf(rooms1, roomId), role, nickname, avatarUrl)
         joined1 == [joined EXCEPT ![c] = @ \cup {roomId}]
         inbox1 == emit(inbox, users1, {c}, "room-history", roomId, NoMsg,
                        filteredMessages(room2.messages, role), room2.files)
         inbox2 == IF room2.healthMetrics # <<>>
                     THEN emit(inbox1, users1, {c}, "health-metrics-updated", roomId,
                               NoMsg, <<>>, <<>>)
                     ELSE inbox1
         inbox3 == IF room2.videoCallActive
                     THEN emit(inbox2, users1, {c}, "video-call-active", roomId,
                               NoMsg, <<>>, <<>>)
                     ELSE inbox2
     IN /\ rooms' = [rooms1 EXCEPT ![roomId] = <<room2>>]
        /\ users' = users1
        /\ userKeys' = IF hasUser(c) THEN userKeys ELSE Append(userKeys, c)
        /\ joined' = joined1
        /\ inbox' = emit(inbox3, users1, inRoom(joined1, roomId), "user-joined", roomId,
                         NoMsg, <<>>, <<>>)
  /\ UNCHANGED <<answered, uncalled, docCalls>>
  /\ UNCHANGED <<roomInvitations, now, sockets, aiCalls, uploads, timers, faults,
                 aiSent, lastGood>>

\* a closed socket receives nothing more; what it had received goes with it
closeInbox(inb, c) == [inb EXCEPT ![c] = <<>>]

\* socket.on("disconnect"): the socket has left its socket.io rooms by then
Disconnect(c) ==
  /\ sockets[c] = "open"
  /\ sockets' = [sockets EXCEPT ![c] = "closed"]
  /\ joined' = [joined EXCEPT ![c] = {}]
  /\ last' = SocketOp("disconnect", c, NoRoomId)
  /\ IF hasUser(c)
       THEN LET u == userOf(c)
            IN /\ users' = [users EXCEPT ![c] = <<>>]
               /\ userKeys' = SelectSeq(userKeys, LAMBDA k : k # c)
               /\ IF hasRoom(rooms, u.roomId)
                    THEN /\ rooms' = [rooms EXCEPT ![u.roomId] =
                                <<setSlot(roomOf(rooms, u.roomId), u.role, Null, Null)>>]
                         /\ inbox' = emit(closeInbox(inbox, c), users,
                                          inRoom(joined', u.roomId),
                                          "user-left", u.roomId, NoMsg, <<>>, <<>>)
                    ELSE /\ inbox' = closeInbox(inbox, c)
                         /\ UNCHANGED rooms
       ELSE /\ inbox' = closeInbox(inbox, c)
            /\ UNCHANGED <<rooms, users, userKeys>>
  /\ UNCHANGED <<answered, uncalled, docCalls>>
  /\ UNCHANGED <<roomInvitations, now, aiCalls, uploads, timers, faults, aiSent,
                 lastGood, handled>>

\* what the language model returns for a chat turn: text, or the call fails
AiOutcomes == {"reply", "throw"}
AiApology == <<"I'm having trouble responding. Please try again.">>

\* array.slice(-n)
lastN(seq, n) == IF Len(seq) <= n THEN seq ELSE SubSeq(seq, Len(seq) - n + 1, Len(seq))

\* a document context with every file's summary and analysis, whoever asks
documentContextFull(files, userRole) ==
  [i \in 1..Len(files) |->
     [name |-> files[i].name, documentSummary |-> files[i].documentSummary,
      analysis |-> files[i].analysis]]

\* the documentContext of getAIResponse, file by file: the doctor's block has
\* the file's summary and analysis (cut to 800 characters, which the texts
\* here never reach), every other role's block the file's name only
documentContext(files, userRole) ==
  [i \in 1..Len(files) |->
     IF userRole = "doctor"
       THEN [name |-> files[i].name, documentSummary |-> files[i].documentSummary,
             analysis |-> files[i].analysis]
       ELSE [name |-> files[i].name, documentSummary |-> <<>>, analysis |-> NoText]]

\* getAIResponse up to its llm.invoke: the prompt's recent messages (the
\* role-filtered log, its last 5) and its document context
promptOf(room, userRole) ==
  [recent |-> lastN(filteredMessages(room.messages, userRole), 5),
   documents |-> documentContext(room.files, userRole)]

\* socket.on("chat-message"), up to the await of getAIResponse
ChatMessage(c, roomId, message) ==
  /\ sockets[c] = "open"
  /\ handled' = count("chats")
  /\ last' = SocketOp("chat-message", c, roomId)
  /\ IF ~hasUser(c)
       THEN UNCHANGED <<rooms, inbox, aiCalls, faults, aiSent>>
       ELSE
         LET user == userOf(c)
             isAiCall == isAiCallOf(message)
             chatMessage == Msg(IF user.role = "doctor" THEN "Doctor" ELSE "Patient",
                                user.nickname, message, NoRole, FALSE, NoText)
             stored == Append(roomOf(rooms, roomId).messages, chatMessage)
         IN IF ~hasRoom(rooms, roomId)
              THEN \* rooms[roomId].messages: TypeError, the handler ends here
                   /\ faults' = faults \cup {"chat-message"}
                   /\ UNCHANGED <<rooms, inbox, aiCalls, aiSent>>
              ELSE
                /\ rooms' = [rooms EXCEPT ![roomId] =
                               <<[roomOf(rooms, roomId) EXCEPT !.messages = stored]>>]
                /\ inbox' = emit(inbox, users,
                                 IF ~isAiCall THEN inRoom(joined, roomId) ELSE toSocket(c),
                                 "chat-message", roomId, chatMessage, <<>>, <<>>)
                /\ IF isAiCall
                     THEN /\ aiCalls' = aiCalls \cup
                               {[sid |-> c, roomId |-> roomId, role |-> user.role,
                                 at |-> Len(stored),
                                 prompt |-> promptOf([roomOf(rooms, roomId) EXCEPT
                                                        !.messages = stored],
                                                     user.role)]}
                          /\ aiSent' = aiSent \cup {<<c, chatMessage>>}
                     ELSE UNCHANGED <<aiCalls, aiSent>>
                /\ UNCHANGED faults
  /\ UNCHANGED <<answered, uncalled, docCalls>>
  /\ UNCHANGED <<users, userKeys, roomInvitations, now, sockets, joined, uploads,
                 timers, lastGood>>

\* a broadcast of the reply to the room, which the handler does not make
aiReplyToRoom(call) == inRoom(joined, call.roomId)

\* io.to(socket.id) of the reply: the requesting socket
aiReplyTargets(call) == toSocket(call.sid)

\* the text of the error, handed on as the reply
aiResponseRaw(outcome) ==
  IF outcome = "throw" THEN <<"Error: model call failed">> ELSE <<"reply">>

\* what getAIResponse returns: response.content, or the apology of its catch
aiResponseOf(outcome) == IF outcome = "throw" THEN AiApology ELSE <<"reply">>

\* getAIResponse returns (the model's text, or the apology when the call
\* failed) and the chat-message handler resumes after its await; `call.role`
\* is the role of the binding object the handler read before the await
AIResponse(call, outcome) ==
  /\ call \in aiCalls
  /\ aiCalls' = aiCalls \ {call}
  /\ last' = withOutcome(SocketOp("ai-reply", call.sid, call.roomId), outcome)
  /\ LET aiResponse == aiResponseOf(outcome)
         aiMessage == private(Msg("AI Assistant", "none", aiResponse, call.role, FALSE,
                                  NoText))
     IN IF ~hasRoom(rooms, call.roomId)
          THEN /\ faults' = faults \cup {"ai-reply"}
               /\ UNCHANGED <<rooms, inbox>>
          ELSE /\ rooms' = [rooms EXCEPT ![call.roomId] =
                              <<[roomOf(rooms, call.roomId) EXCEPT
                                   !.messages = Append(@, aiMessage)]>>]
               /\ inbox' = emit(inbox, users, aiReplyTargets(call),
                                "ai-message", call.roomId, aiMessage, <<>>, <<>>)
               /\ UNCHANGED faults
  /\ UNCHANGED <<answered, uncalled, docCalls>>
  /\ UNCHANGED <<users, userKeys, roomInvitations, now, sockets, joined, uploads,
                 timers, aiSent, lastGood, handled>>

\* ------------------------------------------------------------------ upload
\* the text extractFileContent returns, by what the handler asks of it: its
\* length and whether it contains "no text detected"
FileContents ==
  {[id |-> "note", length |-> 15, noText |-> FALSE],
   [id |-> "report", length |-> 40, noText |-> FALSE],
   [id |-> "image", length |-> 26, noText |-> TRUE],
   [id |-> "unsupported", length |-> 20, noText |-> FALSE],
   [id |-> "line", length |-> 21, noText |-> FALSE]}
FileNames == {"f.pdf"}

\* content.substring(0, n)
substring(content, n) ==
  IF content.length <= n THEN content ELSE [content EXCEPT !.length = n]

\* an analysis of everything long enough, the OCR sentinel included
analysableBySize(content) == content.length > 20

\* the condition under which POST /upload analyses the content
analysable(content) == content.length > 20 /\ ~content.noText

\* what the language model returns to an analysis call
AnalysisOutcomes == {"text", "throw"}
AnalysisText == <<"analysis">>
XaiFallback == <<"Unable to analyze with full explainability.">>

\* what the language model returns to the metrics call: the call fails, the
\* text is no JSON, a JSON object with every field, a JSON object with none
MetricsResponses == {"throw", "not-json", "full", "empty-object"}

\* the defaults of a parsed object, where the error structure belongs
MetricsDefaults ==
  [vitals |-> <<>>, primary |-> "Monitoring", riskLevel |-> "low",
   keyFindings |-> <<>>, recommendations |-> <<>>]

MetricsError ==
  [vitals |-> <<>>, primary |-> "Analysis Error", riskLevel |-> "low",
   keyFindings |-> <<>>,
   recommendations |-> <<"Please re-upload the document or check file format">>]

\* extractHealthMetrics: the parsed object with its missing fields defaulted,
\* or the error structure when the call or JSON.parse throws
extractHealthMetrics(resp) ==
  CASE resp = "full" ->
         [vitals |-> <<"bp">>, primary |-> "Hypertension", riskLevel |-> "high",
          keyFindings |-> <<"bp">>, recommendations |-> <<"rest">>]
    [] resp = "empty-object" ->
         [vitals |-> <<>>, primary |-> "Monitoring", riskLevel |-> "low",
          keyFindings |-> <<>>, recommendations |-> <<>>]
    [] OTHER -> MetricsError

\* extractHealthMetrics returned from its try block
metricsParsed(resp) == resp \in {"full", "empty-object"}

\* how the try block of extractHealthMetrics ended: llm.invoke and JSON.parse
\* both throw into the same catch
metricsOutcome(resp) == IF metricsParsed(resp) THEN "return" ELSE "throw"

\* extractTemporalData(room).length
previousReports(room) == IF Len(room.files) < 2 THEN 0 ELSE Len(room.files)

generateDocumentSummary(content, fileName, analysis, metrics) ==
  [fileName |-> fileName,
   briefSummary |-> IF analysis # NoText THEN analysis ELSE <<"No analysis available">>,
   diagnosis |-> metrics.primary, riskLevel |-> metrics.riskLevel,
   criticalFindings |-> metrics.keyFindings,
   fullAnalysis |-> analysis, rawContent |-> substring(content, 1000)]

HttpOp(op, roomId, status) == Op(op, 0, roomId, "none", Undefined, status, FALSE, NoRole)

\* the file and its message put in front of the older entries
recordUploadInFront(room, fileInfo, fileMessage) ==
  [room EXCEPT !.files = <<fileInfo>> \o @, !.messages = <<fileMessage>> \o @]

\* the file recorded with no message in the log
recordFileOnly(room, fileInfo, fileMessage) ==
  [room EXCEPT !.files = Append(@, fileInfo)]

\* rooms[roomId].files.push(fileInfo); rooms[roomId].messages.push(fileMessage)
recordUpload(room, fileInfo, fileMessage) ==
  [room EXCEPT !.files = Append(@, fileInfo), !.messages = Append(@, fileMessage)]

\* POST /upload from `const fileInfo` to res.json: rs and inb are the rooms and
\* inboxes as the part of the handler before it left them, outcome how the try
\* block of extractHealthMetrics ended ("none" when it did not run)
finishUpload(u, analysis, documentSummary, rs, inb, outcome) ==
  LET fileInfo == [name |-> u.name, content |-> substring(u.content, 5000),
                   analysis |-> analysis, documentSummary |-> documentSummary,
                   uploadedBy |-> u.uploadedBy]
      fileMessage == Msg(u.uploadedBy, u.uploadedBy, <<"Uploaded", u.name>>, NoRole,
                         TRUE, analysis)
      seq == handled.finished + 1
      timer(kind) == [kind |-> kind, seq |-> seq, roomId |-> u.roomId, name |-> u.name,
                      uploadedBy |-> u.uploadedBy, analysis |-> analysis]
  IN /\ last' = withOutcome(HttpOp("upload", u.roomId, 200), outcome)
     /\ answered' = answered \cup {u.id}
     /\ handled' = [handled EXCEPT !.finished = seq,
                                   !.uploads = IF u.pc = "request" THEN @ + 1 ELSE @]
     /\ IF hasRoom(rs, u.roomId)
          THEN LET room1 == recordUpload(roomOf(rs, u.roomId), fileInfo, fileMessage)
                   inb1 == emit(inb, users, inRoom(joined, u.roomId), "chat-message",
                                u.roomId, fileMessage, <<>>, <<>>)
               IN /\ rooms' = [rs EXCEPT ![u.roomId] = <<room1>>]
                  /\ inbox' = emit(inb1, users, inRoom(joined, u.roomId), "files-updated",
                                   u.roomId, NoMsg, <<>>, room1.files)
                  /\ timers' = timers
                       \cup (IF u.content.length > 20 THEN {timer("doctor")} ELSE {})
                       \cup (IF u.uploaderRole = "patient" THEN {timer("patient")} ELSE {})
          ELSE /\ rooms' = rs
               /\ inbox' = inb
               /\ UNCHANGED timers

\* POST /upload, from the request to its first model call (or, when the
\* content is not analysed, to the response)
UploadRequest(roomId, uploadedBy, uploaderRole, content, name) ==
  /\ LET u == [id |-> handled.uploads + 1, roomId |-> roomId, name |-> name,
               uploadedBy |-> uploadedBy, uploaderRole |-> uploaderRole,
               content |-> content, pc |-> "request", inRoom |-> hasRoom(rooms, roomId),
               analysis |-> NoText]
     IN IF analysable(content)
          THEN /\ uploads' = uploads \cup
                    {[u EXCEPT !.pc =
                        IF u.inRoom /\ previousReports(roomOf(rooms, roomId)) > 0
                          THEN "temporal" ELSE "xai"]}
               /\ handled' = count("uploads")
               /\ last' = SocketOp("upload-received", 0, roomId)
               /\ UNCHANGED <<rooms, inbox, timers, answered>>
          ELSE /\ finishUpload(u, NoText, <<>>, rooms, inbox, "none")
               /\ UNCHANGED uploads
  /\ UNCHANGED <<uncalled, docCalls>>
  /\ UNCHANGED <<users, userKeys, roomInvitations, now, sockets, joined, aiCalls,
                 faults, aiSent, lastGood>>

\* a model call of performTemporalAnalysis / analyzeFileWithXAI returns and
\* POST /upload goes on to the call of extractHealthMetrics
AnalysisDone(u, outcome) ==
  /\ u \in uploads
  /\ u.pc \in {"temporal", "xai"}
  /\ IF u.pc = "temporal" /\ outcome = "throw"
       THEN \* the catch of performTemporalAnalysis calls analyzeFileWithXAI
            /\ uploads' = (uploads \ {u}) \cup {[u EXCEPT !.pc = "xai"]}
            /\ last' = SocketOp("upload-analysis", 0, u.roomId)
            /\ UNCHANGED answered
       ELSE LET analysis == IF outcome = "throw" THEN XaiFallback ELSE AnalysisText
            IN IF u.inRoom /\ ~hasRoom(rooms, u.roomId)
                 THEN \* rooms[roomId].messages: TypeError, caught: 500
                      /\ uploads' = uploads \ {u}
                      /\ last' = HttpOp("upload", u.roomId, 500)
                      /\ answered' = answered \cup {u.id}
                 ELSE /\ uploads' = (uploads \ {u}) \cup
                           {[u EXCEPT !.pc = "metrics", !.analysis = analysis]}
                      /\ last' = SocketOp("upload-analysis", 0, u.roomId)
                      /\ UNCHANGED answered
  /\ UNCHANGED <<uncalled, docCalls>>
  /\ UNCHANGED <<rooms, users, userKeys, roomInvitations, now, sockets, joined, aiCalls,
                 timers, inbox, faults, aiSent, lastGood, handled>>

\* the model call of extractHealthMetrics returns and POST /upload runs to
\* its response
MetricsDone(u, resp) ==
  /\ u \in uploads
  /\ u.pc = "metrics"
  /\ uploads' = uploads \ {u}
  /\ LET metrics == extractHealthMetrics(resp)
         documentSummary == generateDocumentSummary(u.content, u.name, u.analysis, metrics)
     IN IF u.inRoom
          THEN IF ~hasRoom(rooms, u.roomId)
                 THEN \* rooms[roomId].healthMetrics = ...: TypeError, caught: 500
                      /\ last' = HttpOp("upload", u.roomId, 500)
                      /\ answered' = answered \cup {u.id}
                      /\ UNCHANGED <<rooms, inbox, timers, lastGood, handled>>
                 ELSE /\ finishUpload(u, u.analysis, <<documentSummary>>,
                           [rooms EXCEPT ![u.roomId] =
                              <<[roomOf(rooms, u.roomId) EXCEPT
                                   !.healthMetrics = <<metrics>>]>>],
                           emit(inbox, users, inRoom(joined, u.roomId),
                                "health-metrics-updated", u.roomId, NoMsg, <<>>, <<>>),
                           metricsOutcome(resp))
                      /\ lastGood' = IF metricsParsed(resp)
                                       THEN [lastGood EXCEPT ![u.roomId] = <<metrics>>]
                                       ELSE lastGood
          ELSE /\ finishUpload(u, u.analysis, <<documentSummary>>, rooms, inbox,
                            metricsOutcome(resp))
               /\ UNCHANGED lastGood
  /\ UNCHANGED <<uncalled, docCalls>>
  /\ UNCHANGED <<users, userKeys, roomInvitations, now, sockets, joined, aiCalls,
                 faults, aiSent>>

\* Object.keys(users).find(...): the first of the bound sockets `hits` that
\* satisfy the test, 0 (for undefined) when there is none
findUser(hits) == IF hits = <<>> THEN 0 ELSE hits[1]

\* a timer runs once every timer due before it has run: an upload sets its
\* patient timer (500 ms) and its doctor timer (1000 ms) in the same tick
due(t) ==
  \A t2 \in timers \ {t} :
    ~ \/ (t2.seq < t.seq /\ ~(t2.kind = "doctor" /\ t.kind = "patient"))
      \/ (t2.seq = t.seq /\ t2.kind = "patient")

\* the setTimeout callbacks of POST /upload
TimerFire(t) ==
  /\ t \in timers
  /\ due(t)
  /\ timers' = timers \ {t}
  /\ last' = SocketOp(IF t.kind = "doctor" THEN "upload-timer-doctor"
                      ELSE "upload-timer-patient", 0, t.roomId)
  /\ LET sid == IF t.kind = "doctor"
                  THEN findUser(SelectSeq(userKeys,
                         LAMBDA k : userOf(k).roomId = t.roomId
                                    /\ userOf(k).role = "doctor"))
                  ELSE findUser(SelectSeq(userKeys,
                         LAMBDA k : userOf(k).nickname = t.uploadedBy
                                    /\ userOf(k).roomId = t.roomId))
         aiMessage == IF t.kind = "doctor"
                        THEN private(Msg("AI Assistant", "none",
                                         <<"Clinical Analysis">> \o t.analysis, "doctor",
                                         FALSE, NoText))
                        ELSE private(Msg("AI Assistant", "none", <<"received", t.name>>,
                                         "patient", FALSE, NoText))
     IN IF sid = 0
          THEN UNCHANGED <<rooms, inbox, faults>>
          ELSE IF ~hasRoom(rooms, t.roomId)
            THEN \* rooms[roomId].doctor / .messages: TypeError in the callback
                 /\ faults' = faults \cup {"upload-timer"}
                 /\ UNCHANGED <<rooms, inbox>>
            ELSE IF t.kind = "doctor" /\ roomOf(rooms, t.roomId).doctor = Null
              THEN UNCHANGED <<rooms, inbox, faults>>
              ELSE /\ rooms' = [rooms EXCEPT ![t.roomId] =
                                  <<[roomOf(rooms, t.roomId) EXCEPT
                                       !.messages = Append(@, aiMessage)]>>]
                   /\ inbox' = emit(inbox, users, toSocket(sid), "ai-message",
                                    t.roomId, aiMessage, <<>>, <<>>)
                   /\ UNCHANGED faults
  /\ UNCHANGED <<answered, uncalled, docCalls>>
  /\ UNCHANGED <<users, userKeys, roomInvitations, now, sockets, joined, aiCalls,
                 uploads, aiSent, lastGood, handled>>

\* ------------------------------------------------------------------ rooms
\* roomInvitations[key]: roomInvitations is a plain object, so a key that
\* every object inherits finds the inherited member, which has none of the
\* invitation's fields
ProtoMember == [roomId |-> NoRoomId, patientEmail |-> Undefined, doctorEmail |-> Undefined]

invitationAt(key) ==
  IF key \in ProtoKeys THEN <<ProtoMember>> ELSE roomInvitations[key]

\* POST /api/create-room; roomHash is what generateRoomHash returns
CreateRoom(doctorEmail, patientEmail, roomHash) ==
  /\ roomInvitations[roomHash] = <<>>
  /\ handled' = count("creates")
  /\ IF doctorEmail = Undefined \/ patientEmail = Undefined
       THEN /\ last' = Op("create-room", 0, NoRoomId, "none", doctorEmail, 400, FALSE,
                          NoRole)
            /\ UNCHANGED <<rooms, roomInvitations>>
       ELSE LET roomId == now
            IN /\ roomInvitations' = [roomInvitations EXCEPT ![roomHash] =
                    <<[roomId |-> roomId, patientEmail |-> toLowerCase(patientEmail),
                       doctorEmail |-> toLowerCase(doctorEmail)]>>]
               /\ rooms' = [rooms EXCEPT ![roomId] =
                    <<newRoom(toLowerCase(patientEmail), toLowerCase(doctorEmail))>>]
               /\ last' = Op("create-room", 0, roomId, roomHash, doctorEmail, 200, FALSE,
                             NoRole)
  /\ UNCHANGED <<answered, uncalled, docCalls>>
  /\ UNCHANGED <<users, userKeys, now, sockets, joined, aiCalls, uploads, timers, inbox,
                 faults, aiSent, lastGood>>

\* the clock moves on
Tick ==
  /\ now' = now + 1
  /\ UNCHANGED <<answered, uncalled, docCalls>>
  /\ UNCHANGED <<rooms, users, userKeys, roomInvitations, sockets, joined, aiCalls,
                 uploads, timers, inbox, last, faults, aiSent, lastGood, handled>>

\* POST /api/validate-room
ValidateRoom(roomHash, userEmail) ==
  /\ handled' = count("http")
  /\ LET invitation == invitationAt(roomHash)
     IN IF invitation = <<>>
          THEN last' = Op("validate-room", 0, NoRoomId, roomHash, userEmail, 404, FALSE,
                          NoRole)
          ELSE LET email == toLowerCaseOpt(userEmail)
                   isDoctor == email = invitation[1].doctorEmail
                   isInvitedPatient == email = invitation[1].patientEmail
               IN IF ~isDoctor /\ ~isInvitedPatient
                    THEN last' = Op("validate-room", 0, NoRoomId, roomHash, userEmail,
                                    403, FALSE, NoRole)
                    ELSE last' = Op("validate-room", 0, invitation[1].roomId, roomHash,
                                    userEmail, 200, TRUE,
                                    IF isDoctor THEN "doctor" ELSE "patient")
  /\ UNCHANGED <<answered, uncalled, docCalls>>
  /\ UNCHANGED <<rooms, users, userKeys, roomInvitations, now, sockets, joined, aiCalls,
                 uploads, timers, inbox, faults, aiSent, lastGood>>

\* DELETE /api/delete-room/:hash
DeleteRoom(hash, doctorEmail) ==
  /\ handled' = count("http")
  /\ LET invitation == invitationAt(hash)
     IN IF invitation = <<>>
          THEN /\ last' = Op("delete-room", 0, NoRoomId, hash, doctorEmail, 404, FALSE,
                             NoRole)
               /\ UNCHANGED <<rooms, roomInvitations, inbox>>
          ELSE IF invitation[1].doctorEmail # toLowerCaseOpt(doctorEmail)
            THEN /\ last' = Op("delete-room", 0, NoRoomId, hash, doctorEmail, 403, FALSE,
                               NoRole)
                 /\ UNCHANGED <<rooms, roomInvitations, inbox>>
            ELSE LET roomId == invitation[1].roomId
                 IN /\ IF hasRoom(rooms, roomId)
                         THEN /\ inbox' = emit(inbox, users, inRoom(joined, roomId),
                                               "room-deleted", roomId, NoMsg, <<>>, <<>>)
                              /\ rooms' = [rooms EXCEPT ![roomId] = <<>>]
                         ELSE UNCHANGED <<rooms, inbox>>
                    /\ roomInvitations' =
                         IF hash \in Hashes THEN [roomInvitations EXCEPT ![hash] = <<>>]
                         ELSE roomInvitations
                    /\ last' = Op("delete-room", 0, roomId, hash, doctorEmail, 200, FALSE,
                                  NoRole)
  /\ UNCHANGED <<answered, uncalled, docCalls>>
  /\ UNCHANGED <<users, userKeys, now, sockets, joined, aiCalls, uploads, timers,
                 faults, aiSent, lastGood>>

\* a call started with the roster it found
startedCallKeepingRoster(room) == [room EXCEPT !.videoCallActive = TRUE]

\* videoCallActive = true; videoParticipants = []
startedCall(room) == [room EXCEPT !.videoCallActive = TRUE, !.videoParticipants = <<>>]

\* videoCallActive = false; videoParticipants = []
endedCall(room) == [room EXCEPT !.videoCallActive = FALSE, !.videoParticipants = <<>>]

\* socket.on("start-video-call")
StartVideoCall(c, roomId) ==
  /\ sockets[c] = "open"
  /\ handled' = count("video")
  /\ last' = SocketOp("start-video-call", c, roomId)
  /\ IF ~hasUser(c) \/ roleOf(users, c) # "doctor"
       THEN /\ inbox' = emit(inbox, users, {c}, "video-error", roomId, NoMsg, <<>>, <<>>)
            /\ UNCHANGED rooms
       ELSE IF hasRoom(rooms, roomId)
         THEN /\ rooms' = [rooms EXCEPT ![roomId] = <<startedCall(roomOf(rooms, roomId))>>]
              /\ inbox' = emit(inbox, users, inRoom(joined, roomId), "video-call-started",
                               roomId, NoMsg, <<>>, <<>>)
         ELSE UNCHANGED <<rooms, inbox>>
  /\ UNCHANGED <<answered, uncalled, docCalls>>
  /\ UNCHANGED <<users, userKeys, roomInvitations, now, sockets, joined, aiCalls,
                 uploads, timers, faults, aiSent, lastGood>>

\* socket.on("end-video-call")
EndVideoCall(c, roomId) ==
  /\ sockets[c] = "open"
  /\ handled' = count("video")
  /\ last' = SocketOp("end-video-call", c, roomId)
  /\ IF ~hasUser(c) \/ roleOf(users, c) # "doctor"
       THEN UNCHANGED <<rooms, inbox>>
       ELSE IF hasRoom(rooms, roomId)
         THEN /\ rooms' = [rooms EXCEPT ![roomId] = <<endedCall(roomOf(rooms, roomId))>>]
              /\ inbox' = emit(inbox, users, inRoom(joined, roomId), "video-call-ended",
                               roomId, NoMsg, <<>>, <<>>)
         ELSE UNCHANGED <<rooms, inbox>>
  /\ UNCHANGED <<answered, uncalled, docCalls>>
  /\ UNCHANGED <<users, userKeys, roomInvitations, now, sockets, joined, aiCalls,
                 uploads, timers, faults, aiSent, lastGood>>

\* socket.on("typing")
Typing(c, roomId) ==
  /\ sockets[c] = "open"
  /\ handled' = count("typing")
  /\ last' = SocketOp("typing", c, roomId)
  /\ inbox' = IF hasUser(c)
                THEN emit(inbox, users, inRoom(joined, roomId) \ {c}, "user-typing",
                          roomId, NoMsg, <<>>, <<>>)
                ELSE inbox
  /\ UNCHANGED <<answered, uncalled, docCalls>>
  /\ UNCHANGED <<rooms, users, userKeys, roomInvitations, now, sockets, joined, aiCalls,
                 uploads, timers, faults, aiSent, lastGood>>

\* generateClinicalDocumentation: the messages its conversationHistory is made of
conversationHistory(messages) ==
  SelectSeq(messages, LAMBDA m : m.role \in {"Patient", "Doctor"})

\* generateClinicalDocumentation: the files of its filesSummary, each with
\* f.analysis || 'No analysis'
filesSummary(files) ==
  [i \in 1..Len(files) |->
     [name |-> files[i].name,
      analysis |-> IF files[i].analysis = NoText THEN <<"No analysis">>
                   ELSE files[i].analysis]]

\* socket.on("request-documentation"), up to the return of null for a room
\* that does not exist or to the await of the model's answer
RequestDocumentation(c, roomId) ==
  /\ sockets[c] = "open"
  /\ handled' = count("docs")
  /\ last' = SocketOp("request-documentation", c, roomId)
  /\ docCalls' =
       IF hasRoom(rooms, roomId)
         THEN docCalls \cup
                {[sid |-> c, roomId |-> roomId, at |-> handled.docs + 1,
                  conversation |-> conversationHistory(roomOf(rooms, roomId).messages),
                  files |-> filesSummary(roomOf(rooms, roomId).files)]}
         ELSE docCalls
  /\ UNCHANGED <<answered, uncalled>>
  /\ UNCHANGED <<rooms, users, userKeys, roomInvitations, now, sockets, joined, aiCalls,
                 uploads, timers, inbox, faults, aiSent, lastGood>>

\* the model's answer to a documentation prompt arrives, or the call throws and
\* generateClinicalDocumentation returns null; the handler emits what is not null
DocumentationDone(call, outcome) ==
  /\ call \in docCalls
  /\ docCalls' = docCalls \ {call}
  /\ last' = withOutcome(SocketOp("documentation-done", call.sid, call.roomId), outcome)
  /\ inbox' = IF outcome = "reply"
                THEN emit(inbox, users, toSocket(call.sid), "documentation-generated",
                          call.roomId, NoMsg, call.conversation, call.files)
                ELSE inbox
  /\ UNCHANGED <<answered, uncalled>>
  /\ UNCHANGED <<rooms, users, userKeys, roomInvitations, now, sockets, joined, aiCalls,
                 uploads, timers, faults, aiSent, lastGood, handled>>

\* the peer ids clients send with join-video-call and leave-video-call
PeerIds == {"peer1", "peer2"}

\* the roster handed on whole
allPeers(participants, peerId) == participants

\* the event of socket `sid` that names a peer id
PeerOp(op, sid, roomId, peerId) ==
  Op(op, sid, roomId, peerId, Undefined, 0, FALSE, NoRole)

\* videoParticipants.filter(id => id !== peerId)
withoutPeer(participants, peerId) == SelectSeq(participants, LAMBDA id : id # peerId)

\* socket.to(roomId): the sockets of the room other than the sender
othersInRoom(c, roomId) == inRoom(joined, roomId) \ {c}

\* socket.on("join-video-call"); the events carry the peer's id and the list
\* of the other participants in their `files` field
JoinVideoCall(c, roomId, peerId) ==
  /\ sockets[c] = "open"
  /\ handled' = count("video")
  /\ last' = PeerOp("join-video-call", c, roomId, peerId)
  /\ IF ~hasUser(c) \/ ~hasRoom(rooms, roomId)
       THEN UNCHANGED <<rooms, inbox>>
       ELSE LET room == roomOf(rooms, roomId)
                participants ==
                  IF \E i \in 1..Len(room.videoParticipants) :
                       room.videoParticipants[i] = peerId
                    THEN room.videoParticipants
                    ELSE Append(room.videoParticipants, peerId)
                inbox1 == emit(inbox, users, othersInRoom(c, roomId), "user-joined-video",
                               roomId, NoMsg, <<>>, <<peerId>>)
            IN /\ rooms' = [rooms EXCEPT ![roomId] =
                              <<[room EXCEPT !.videoParticipants = participants]>>]
               /\ inbox' = emit(inbox1, users, {c}, "existing-video-participants",
                                roomId, NoMsg, <<>>, withoutPeer(participants, peerId))
  /\ UNCHANGED <<answered, uncalled, docCalls>>
  /\ UNCHANGED <<users, userKeys, roomInvitations, now, sockets, joined, aiCalls,
                 uploads, timers, faults, aiSent, lastGood>>

\* socket.on("leave-video-call")
LeaveVideoCall(c, roomId, peerId) ==
  /\ sockets[c] = "open"
  /\ handled' = count("video")
  /\ last' = PeerOp("leave-video-call", c, roomId, peerId)
  /\ IF ~hasUser(c) \/ ~hasRoom(rooms, roomId)
       THEN UNCHANGED <<rooms, inbox>>
       ELSE /\ rooms' = [rooms EXCEPT ![roomId] =
                           <<[roomOf(rooms, roomId) EXCEPT
                                !.videoParticipants = withoutPeer(@, peerId)]>>]
            /\ inbox' = emit(inbox, users, othersInRoom(c, roomId), "user-left-video",
                             roomId, NoMsg, <<>>, <<peerId>>)
  /\ UNCHANGED <<answered, uncalled, docCalls>>
  /\ UNCHANGED <<users, userKeys, roomInvitations, now, sockets, joined, aiCalls,
                 uploads, timers, faults, aiSent, lastGood>>

\* ------------------------------------------------------------ rate limiter
\* parseInt(process.env.RATE_LIMIT_MAX) || 10
RATE_LIMIT_MAX == 10
\* process.env.RATE_LIMIT_WINDOW_MS, counted in steps of the clock `now`
\* (unset, the window is six hours)
RATE_LIMIT_WINDOW_MS == 1

\* a limit that lets one request too many through
overLimit(limit) == limit.count > RATE_LIMIT_MAX

\* limit.count >= RATE_LIMIT_MAX
atLimit(limit) == limit.count >= RATE_LIMIT_MAX

\* checkSocketRateLimit(ip); what it returns goes to the history of ip
CheckSocketRateLimit(ip) ==
  /\ handled' = count("checks")
  /\ LET limit == socketRateLimits[ip]
         fresh == limit = <<>> \/ now > limit[1].resetTime
         ok == fresh \/ ~atLimit(limit[1])
     IN /\ socketRateLimits' =
             IF fresh
               THEN [socketRateLimits EXCEPT ![ip] =
                       <<[count |-> 1, resetTime |-> now + RATE_LIMIT_WINDOW_MS]>>]
               ELSE IF atLimit(limit[1]) THEN socketRateLimits
               ELSE [socketRateLimits EXCEPT ![ip] =
                       <<[limit[1] EXCEPT !.count = @ + 1]>>]
        /\ rateLog' = [rateLog EXCEPT ![ip] = Append(@, [at |-> now, ok |-> ok])]
        /\ last' = Op("rate-check", 0, NoRoomId, ip, Undefined, 0, ok, NoRole)
  /\ UNCHANGED <<rooms, users, userKeys, roomInvitations, now, sockets, joined, aiCalls,
                 uploads, timers, inbox, faults, aiSent, lastGood, answered,
                 emergencyCalls, verdicts, docCalls>>

\* ------------------------------------------------------ emergency detection
EMERGENCY_KEYWORDS ==
  {<<"c", "h", "e", "s", "t", " ", "p", "a", "i", "n">>,
   <<"h", "e", "a", "r", "t", " ", "a", "t", "t", "a", "c", "k">>,
   <<"c", "a", "n", "'", "t", " ", "b", "r", "e", "a", "t", "h", "e">>,
   <<"b", "r", "e", "a", "t", "h", "l", "e", "s", "s">>,
   <<"s", "e", "v", "e", "r", "e", " ", "b", "l", "e", "e", "d", "i", "n", "g">>,
   <<"u", "n", "c", "o", "n", "s", "c", "i", "o", "u", "s">>,
   <<"s", "t", "r", "o", "k", "e">>,
   <<"p", "a", "r", "a", "l", "y", "s", "i", "s">>,
   <<"s", "e", "v", "e", "r", "e", " ", "h", "e", "a", "d", "a", "c", "h", "e">>,
   <<"s", "u", "i", "c", "i", "d", "e">>,
   <<"o", "v", "e", "r", "d", "o", "s", "e">>,
   <<"s", "e", "i", "z", "u", "r", "e">>,
   <<"c", "h", "o", "k", "i", "n", "g">>,
   <<"a", "n", "a", "p", "h", "y", "l", "a", "x", "i", "s">>,
   <<"s", "e", "v", "e", "r", "e", " ", "p", "a", "i", "n">>}

\* a keyword test on the message as it was written, capitals kept
hasKeywordExact(message) ==
  \E keyword \in EMERGENCY_KEYWORDS : includes(message, keyword)

\* EMERGENCY_KEYWORDS.some(keyword => messageLower.includes(keyword))
hasEmergencyKeywordOf(message) ==
  \E keyword \in EMERGENCY_KEYWORDS : includes(toLowerCase(message), keyword)

\* the messages detectEmergency is applied to
TriageTexts ==
  {<<"c", "h", "e", "s", "t", " ", "p", "a", "i", "n">>,
   <<"C", "h", "e", "s", "t", " ", "P", "a", "i", "n", "!">>,
   <<"h", "i", " ", "S", "t", "r", "o", "k", "e">>,
   <<"h", "i">>,
   <<"c", "h", "e", "s", "t", "p", "a", "i", "n">>}

\* a field the returned object does not have
Absent == "undefined"

\* what the classifier call yields: llm.invoke throws, or its text is no JSON,
\* JSON null, a JSON object without a level, or one with a level
Levels == {"CRITICAL", "HIGH", "MODERATE", "LOW"}
ClassifierResponses ==
  {[kind |-> k, level |-> Absent] : k \in {"throw", "not-json", "null", "object"}}
    \cup {[kind |-> "object", level |-> l] : l \in Levels}

\* a degradation to silence: what the catch block must not return
emergencySilent(hasEmergencyKeyword) ==
  [isEmergency |-> FALSE, level |-> "LOW", reasoning |-> "Keyword detected",
   urgentAdvice |-> Absent]

\* the object the catch block of detectEmergency returns
emergencyFallback(hasEmergencyKeyword) ==
  [isEmergency |-> hasEmergencyKeyword, level |-> "HIGH",
   reasoning |-> "Keyword detected", urgentAdvice |-> Absent]

\* the try block of detectEmergency once llm.invoke has settled: JSON.parse
\* throws on text that is no JSON, result.level throws on null
classified(response, hasEmergencyKeyword) ==
  IF response.kind \in {"throw", "not-json", "null"}
    THEN emergencyFallback(hasEmergencyKeyword)
    ELSE [isEmergency |-> response.level \in {"CRITICAL", "HIGH"},
          level |-> response.level,
          reasoning |-> IF response.level = Absent THEN Absent ELSE "reasoning",
          urgentAdvice |-> IF response.level = Absent THEN Absent ELSE "advice"]

\* detectEmergency(message, userRole), up to its return or its await
DetectEmergency(message, userRole) ==
  /\ handled' = count("scans")
  /\ last' = SocketOp("detect-emergency", 0, NoRoomId)
  /\ IF ~hasEmergencyKeywordOf(message)
       THEN /\ verdicts' = verdicts \cup
                 {[message |-> message, response |-> [kind |-> "none", level |-> Absent],
                   result |-> [isEmergency |-> FALSE, level |-> Absent,
                               reasoning |-> Absent, urgentAdvice |-> Absent]]}
            /\ UNCHANGED emergencyCalls
       ELSE /\ emergencyCalls' = emergencyCalls \cup
                 {[id |-> handled.scans + 1, message |-> message]}
            /\ UNCHANGED verdicts
  /\ UNCHANGED <<rooms, users, userKeys, roomInvitations, now, sockets, joined, aiCalls,
                 uploads, timers, inbox, faults, aiSent, lastGood, answered,
                 socketRateLimits, rateLog, docCalls>>

\* the classifier call of a detectEmergency settles and the function returns
ClassifierDone(call, response) ==
  /\ call \in emergencyCalls
  /\ emergencyCalls' = emergencyCalls \ {call}
  /\ last' = SocketOp("emergency-classified", 0, NoRoomId)
  /\ verdicts' = verdicts \cup
        {[message |-> call.message, response |-> response,
          result |-> classified(response, hasEmergencyKeywordOf(call.message))]}
  /\ UNCHANGED <<rooms, users, userKeys, roomInvitations, now, sockets, joined, aiCalls,
                 uploads, timers, inbox, faults, aiSent, lastGood, handled, answered,
                 socketRateLimits, rateLog, docCalls>>

\* ------------------------------------------------------------------ claims
\* the messages an event delivers: its own message, or a replayed history
carried(e) ==
  IF e.type \in {"chat-message", "ai-message"} THEN <<e.msg>>
  ELSE IF e.type = "room-history" THEN e.messages
  ELSE <<>>

otherRole(role) == IF role = "doctor" THEN "patient" ELSE "doctor"

\* C1: no message with forRole=doctor is ever delivered (live ai-message or
\* room-history replay) to a socket bound as patient, and none with
\* forRole=patient to a socket bound as doctor.
C1_NoCrossRoleDelivery ==
  \A c \in Conns : \A i \in DOMAIN inbox[c] :
    LET e == inbox[c][i]
    IN \A k \in DOMAIN carried(e) :
         carried(e)[k].forRole \in Roles => e.asRole # otherRole(carried(e)[k].forRole)

\* C2: the text of an @ai chat-message reaches the sending socket only: every
\* socket that was delivered such a message, live or in a replay, sent it.
C2_AiTextToSenderOnly ==
  \A c \in Conns : \A i \in DOMAIN inbox[c] :
    LET e == inbox[c][i]
    IN \A k \in DOMAIN carried(e) :
         LET m == carried(e)[k]
         IN (m.role \in {"Doctor", "Patient"} /\ isAiCallOf(m.content))
              => <<c, m>> \in aiSent

\* the messages socket c received live, in order
liveOf(c) ==
  LET evs == SelectSeq(inbox[c], LAMBDA e : e.type \in {"chat-message", "ai-message"})
  IN [i \in 1..Len(evs) |-> evs[i].msg]

\* socket c was present for the whole session of room r: it joined once, while
\* the log of r was empty, and is still bound to r
presentThroughout(c, r) ==
  /\ sockets[c] = "open" /\ hasUser(c) /\ userOf(c).roomId = r /\ hasRoom(rooms, r)
  /\ Len(inbox[c]) > 0
  /\ inbox[c][1].type = "room-history" /\ inbox[c][1].messages = <<>>
  /\ \A i \in 2..Len(inbox[c]) : inbox[c][i].type # "room-history"

\* C3: the log of a room filtered by role R (what join-room replays) equals
\* what a socket of role R that was present throughout received live.
C3_ReplayEqualsLive ==
  \A c \in Conns : \A r \in RoomIds :
    presentThroughout(c, r) =>
      filteredMessages(roomOf(rooms, r).messages, userOf(c).role) = liveOf(c)

slotOf(room, role) ==
  IF role = "patient" THEN <<room.patient, room.patientAvatar>>
  ELSE <<room.doctor, room.doctorAvatar>>

\* C10: a disconnect leaves the presence slot of the socket's role as it is
\* when the slot shows another identity than the disconnecting socket's.
C10_DisconnectKeepsForeignSlot ==
  [][\A c \in Conns :
       (sockets[c] = "open" /\ sockets'[c] = "closed" /\ hasUser(c)
          /\ hasRoom(rooms, userOf(c).roomId))
       => LET u == userOf(c)
              slot == slotOf(roomOf(rooms, u.roomId), u.role)
          IN slot # <<u.nickname, u.avatarUrl>>
               => slotOf(roomOf(rooms', u.roomId), u.role) = slot]_vars

\* C4: no event sent to a socket bound as patient carries an analysis text or
\* a document summary: neither the fileData of a message nor a file of a list.
C4_NoAnalysisToPatient ==
  \A c \in Conns : \A i \in DOMAIN inbox[c] :
    LET e == inbox[c][i]
    IN e.asRole = "patient" =>
         /\ \A k \in DOMAIN carried(e) : carried(e)[k].analysis = NoText
         /\ \A k \in DOMAIN e.files :
              e.files[k].analysis = NoText /\ e.files[k].documentSummary = <<>>

\* C5: once an extraction has succeeded for a room, the room's healthMetrics
\* is the result of the last extraction that succeeded.
C5_MetricsAreLastSuccess ==
  \A r \in RoomIds :
    (hasRoom(rooms, r) /\ lastGood[r] # <<>>)
      => roomOf(rooms, r).healthMetrics = lastGood[r]

isClinicalAnalysis(m) ==
  m.role = "AI Assistant" /\ m.forRole = "doctor" /\ Len(m.content) > 0
    /\ m.content[1] = "Clinical Analysis"

\* C9: every analysed file of a room whose doctor timer has run has its
\* doctor-only analysis message in the room's log, whoever was connected.
C9_AnalysisAlwaysLogged ==
  \A r \in RoomIds :
    hasRoom(rooms, r) =>
      LET analysed == Len(SelectSeq(roomOf(rooms, r).files,
                                    LAMBDA f : f.analysis # NoText))
          waiting == Cardinality({t \in timers : t.kind = "doctor" /\ t.roomId = r
                                                  /\ t.analysis # NoText})
          logged == Len(SelectSeq(roomOf(rooms, r).messages, isClinicalAnalysis))
      IN logged >= analysed - waiting

\* socket c is the doctor room r is bound to: it joined with the email that
\* create-room stored as the room's doctorEmail
isBoundDoctor(c, r) ==
  /\ c \in Conns /\ hasUser(c) /\ hasRoom(rooms, r)
  /\ roomOf(rooms, r).doctorEmail # Undefined
  /\ toLowerCaseOpt(userOf(c).email) = roomOf(rooms, r).doctorEmail

\* C6: in a room bound to a doctor, a start-video-call or end-video-call of a
\* socket that is not that doctor, and a delete-room with another email than
\* the bound doctor's, change no room, invitation or video state (and the
\* delete-room is answered 403).
C6_OnlyBoundDoctorActs ==
  [][/\ (last'.op \in {"start-video-call", "end-video-call"}
           /\ hasRoom(rooms, last'.roomId)
           /\ roomOf(rooms, last'.roomId).doctorEmail # Undefined
           /\ ~isBoundDoctor(last'.sid, last'.roomId))
        => (rooms' = rooms /\ roomInvitations' = roomInvitations)
     /\ (last'.op = "delete-room" /\ last'.token \in Hashes
           /\ roomInvitations[last'.token] # <<>>
           /\ toLowerCaseOpt(last'.email) # roomInvitations[last'.token][1].doctorEmail)
        => (last'.status = 403 /\ rooms' = rooms
              /\ roomInvitations' = roomInvitations)]_vars

\* C7: validate-room answers 404 valid:false for an unknown token, 403
\* valid:false for an email that is neither bound email (compared in lower
\* case), and otherwise valid:true with the invitation's room id and the role
\* doctor for the doctor's email, else patient.
C7_ValidateRoomAnswer ==
  last.op = "validate-room" =>
    IF ~(last.token \in Hashes /\ roomInvitations[last.token] # <<>>)
      THEN last.status = 404 /\ ~last.valid
      ELSE LET invitation == roomInvitations[last.token][1]
               email == toLowerCaseOpt(last.email)
           IN IF email \notin {invitation.doctorEmail, invitation.patientEmail}
                THEN last.status = 403 /\ ~last.valid
                ELSE /\ last.status = 200 /\ last.valid
                     /\ last.roomId = invitation.roomId
                     /\ last.role = IF email = invitation.doctorEmail
                                      THEN "doctor" ELSE "patient"

\* C8: no socket is bound to a room that delete-room has removed: every
\* binding refers to a room of the store.
C8_NoBindingToDeletedRoom ==
  \A c \in Conns : hasUser(c) => hasRoom(rooms, userOf(c).roomId)

\* C11: the AI reply of an @ai chat-message is appended to the room's log,
\* tagged isPrivate and forRole = the role the requester asked with, and is
\* emitted to the requesting socket only: no other socket receives anything
\* in the step, and nothing is broadcast to the room.
C11_AiReplyPrivate ==
  [][\A call \in aiCalls : call \notin aiCalls' =>
       LET log == roomOf(rooms, call.roomId).messages
           log2 == roomOf(rooms', call.roomId).messages
           request == log[call.at]
           reply == log2[Len(log2)]
           delivered == Append(inbox[call.sid],
                               Event("ai-message", roleOf(users, call.sid), call.roomId,
                                     reply, <<>>, <<>>))
       IN /\ Len(log2) = Len(log) + 1
          /\ SubSeq(log2, 1, Len(log)) = log
          /\ reply.role = "AI Assistant" /\ reply.isPrivate
          /\ reply.forRole = (IF request.role = "Doctor" THEN "doctor" ELSE "patient")
          /\ \A c \in Conns \ {call.sid} : inbox'[c] = inbox[c]
          /\ inbox'[call.sid] = (IF sockets[call.sid] = "open" THEN delivered
                                 ELSE inbox[call.sid])]_vars

\* an AI reply was delivered while another socket was bound to the same room
C11_Witness ==
  /\ last.op = "ai-reply"
  /\ sockets[last.sid] = "open"
  /\ Len(inbox[last.sid]) > 0
  /\ inbox[last.sid][Len(inbox[last.sid])].type = "ai-message"
  /\ \E d \in Conns \ {last.sid} :
        sockets[d] = "open" /\ hasUser(d) /\ userOf(d).roomId = last.roomId
          /\ last.roomId \in joined[d]

\* content of at most 20 characters, or the OCR sentinel
belowThreshold(content) == content.length <= 20 \/ content.noText

\* C12: an upload whose content has at most 20 characters or holds the OCR
\* sentinel starts no model call and leaves healthMetrics as it is, and its
\* file is appended to the room's list at once, with an empty analysis and
\* no document summary.
C12_ShortContentSkipped ==
  [][/\ \A u \in uploads' \ uploads : ~belowThreshold(u.content)
     /\ \A r \in RoomIds :
          (hasRoom(rooms, r) /\ hasRoom(rooms', r)
             /\ Len(roomOf(rooms', r).files) = Len(roomOf(rooms, r).files) + 1)
          => LET files == roomOf(rooms', r).files
                 f == files[Len(files)]
             IN belowThreshold(f.content)
                  => /\ f.analysis = NoText /\ f.documentSummary = <<>>
                     /\ roomOf(rooms', r).healthMetrics = roomOf(rooms, r).healthMetrics
                     /\ handled'.uploads = handled.uploads + 1
                     /\ uploads' = uploads
     /\ (handled'.uploads = handled.uploads + 1 /\ uploads' = uploads
           /\ hasRoom(rooms, last'.roomId))
        => Len(roomOf(rooms', last'.roomId).files)
             = Len(roomOf(rooms, last'.roomId).files) + 1]_vars

\* a room whose first file was analysed holds a second, skipped file, with the
\* metrics of the first still in place
C12_Witness ==
  \E r \in RoomIds :
    /\ hasRoom(rooms, r)
    /\ Len(roomOf(rooms, r).files) = 2
    /\ roomOf(rooms, r).files[1].analysis # NoText
    /\ belowThreshold(roomOf(rooms, r).files[2].content)
    /\ roomOf(rooms, r).files[2].analysis = NoText
    /\ roomOf(rooms, r).healthMetrics # <<>>

\* C13: a detectEmergency call on a message with an emergency keyword whose
\* classifier call failed (the model call threw, or its text did not parse)
\* returned isEmergency true, level HIGH and the generic reasoning; it raised
\* no error.
C13_FallbackIsHigh ==
  /\ \A v \in verdicts :
       (hasEmergencyKeywordOf(v.message) /\ v.response.kind \in {"throw", "not-json"})
         => /\ v.result.isEmergency
            /\ v.result.level = "HIGH"
            /\ v.result.reasoning = "Keyword detected"
  /\ faults = {}

\* both kinds of failure happened, one of them on a message in capitals
C13_Witness ==
  /\ \E v \in verdicts :
       v.response.kind = "throw" /\ v.message # toLowerCase(v.message)
         /\ v.result.isEmergency
  /\ \E v \in verdicts : v.response.kind = "not-json" /\ v.result.level = "HIGH"

\* C14: every chat-message handled for a bound socket leads to one keyword
\* scan of detectEmergency, whether or not the message contains "@ai".
C14_EveryMessageScanned ==
  [][(handled'.chats = handled.chats + 1 /\ last'.op = "chat-message"
        /\ hasUser(last'.sid))
     => handled'.scans = handled.scans + 1]_vars

\* the time at which the window of the i-th check of a log began: a check
\* made after the window of the check before it has elapsed opens a new one
RECURSIVE windowStart(_, _)
windowStart(log, i) ==
  IF i = 1 THEN log[1].at
  ELSE LET start == windowStart(log, i - 1)
       IN IF log[i].at > start + RATE_LIMIT_WINDOW_MS THEN log[i].at ELSE start

\* the checks before the i-th that its window has accepted
acceptedBefore(log, i) ==
  Cardinality({j \in 1..(i - 1) :
                 windowStart(log, j) = windowStart(log, i) /\ log[j].ok})

\* C15: for each source address, a check is accepted exactly when its window
\* has accepted fewer than RATE_LIMIT_MAX checks before it: RATE_LIMIT_MAX are
\* accepted in a window, every further one is rejected, and the first check
\* after the window has elapsed starts a new window with a fresh count.  The
\* answer depends on the checks of the same address only.  (Stated of the
\* latest check of each address; every check was the latest when it was made.)
C15_LimiterWindow ==
  \A ip \in Ips :
    LET n == Len(rateLog[ip])
    IN n > 0 =>
         (rateLog[ip][n].ok <=> acceptedBefore(rateLog[ip], n) < RATE_LIMIT_MAX)

\* an address was rejected and, its window over, accepted again, while the
\* other address was accepted at the time of the rejection
C15_Witness ==
  \E ip \in Ips, other \in Ips :
    /\ ip # other
    /\ \E i, j \in DOMAIN rateLog[ip] :
         /\ i < j /\ ~rateLog[ip][i].ok /\ rateLog[ip][j].ok
         /\ \E k \in DOMAIN rateLog[other] :
              rateLog[other][k].ok /\ rateLog[other][k].at = rateLog[ip][i].at

\* C16: a start-video-call or end-video-call of a socket that is unbound or
\* bound with another role than doctor changes no room and is answered with
\* an error event to the sender.
C16_NonDoctorGetsForbidden ==
  [][(last'.op \in {"start-video-call", "end-video-call"}
        /\ handled'.video = handled.video + 1
        /\ roleOf(users, last'.sid) # "doctor")
     => /\ rooms' = rooms
        /\ inbox'[last'.sid] =
             Append(inbox[last'.sid],
                    Event("video-error", roleOf(users, last'.sid), last'.roomId, NoMsg,
                          <<>>, <<>>))]_vars

\* C17: an operation that resumes after its room was deleted (the reply of
\* an @ai chat-message, the model calls of an upload, the timers of an upload)
\* is abandoned silently: no handler ends in an error and no upload is
\* answered with an error response.
C17_DeletedRoomCancels ==
  /\ faults \cap {"ai-reply", "upload-timer"} = {}
  /\ ~(last.op = "upload" /\ last.status = 500)

\* C20: a chat-message of a bound socket appends exactly one message to the
\* room's log, with the role Doctor or Patient and the sender's nickname,
\* whatever its text; the handler does not fail before the append.
C20_ChatAlwaysAppended ==
  [][(last'.op = "chat-message" /\ handled'.chats = handled.chats + 1
        /\ hasUser(last'.sid))
     => /\ "chat-message" \notin faults'
        /\ hasRoom(rooms, last'.roomId) /\ hasRoom(rooms', last'.roomId)
        /\ LET log == roomOf(rooms, last'.roomId).messages
               log2 == roomOf(rooms', last'.roomId).messages
           IN /\ Len(log2) = Len(log) + 1
              /\ SubSeq(log2, 1, Len(log)) = log
              /\ log2[Len(log2)].role \in {"Doctor", "Patient"}
              /\ log2[Len(log2)].nickname = userOf(last'.sid).nickname]_vars

\* C18: POST /upload is answered before its analysis completes: every upload
\* that waits for a model call has got its HTTP response already.
C18_AckBeforeAnalysis ==
  \A u \in uploads : u.id \in answered

\* C19: join-room binds the socket to the room, creates the room if there is
\* none, writes the joiner's nickname and avatar to the slot of the joiner's
\* role and leaves the other slot and the log alone; the joiner is sent
\* room-history first (the log as it was, without the assistant's messages
\* for the other role, and the file list) and user-joined last, and every
\* other socket of the room is sent user-joined.
C19_JoinOrder ==
  [][(last'.op = "join-room" /\ handled'.joins = handled.joins + 1)
     => LET c == last'.sid
            r == last'.roomId
            logBefore == IF hasRoom(rooms, r) THEN roomOf(rooms, r).messages ELSE <<>>
            filesBefore == IF hasRoom(rooms, r) THEN roomOf(rooms, r).files ELSE <<>>
        IN /\ users'[c] # <<>> /\ users'[c][1].roomId = r
           /\ hasRoom(rooms', r)
           /\ LET u == users'[c][1]
                  room2 == roomOf(rooms', r)
                  new == SubSeq(inbox'[c], Len(inbox[c]) + 1, Len(inbox'[c]))
                  replay == SelectSeq(logBefore,
                              LAMBDA m : m.role # "AI Assistant"
                                         \/ m.forRole \in {NoRole, u.role})
              IN /\ slotOf(room2, u.role) = <<u.nickname, u.avatarUrl>>
                 /\ hasRoom(rooms, r)
                      => slotOf(room2, otherRole(u.role))
                           = slotOf(roomOf(rooms, r), otherRole(u.role))
                 /\ room2.messages = logBefore
                 /\ SubSeq(inbox'[c], 1, Len(inbox[c])) = inbox[c]
                 /\ Len(new) >= 2
                 /\ new[1].type = "room-history"
                 /\ new[1].messages = replay /\ new[1].files = filesBefore
                 /\ new[Len(new)].type = "user-joined"
                 /\ \A i \in 1..(Len(new) - 1) : new[i].type # "user-joined"
                 /\ \A d \in Conns \ {c} :
                      inbox'[d] = IF r \in joined[d]
                                    THEN Append(inbox[d],
                                           Event("user-joined", roleOf(users, d), r, NoMsg,
                                                 <<>>, <<>>))
                                    ELSE inbox[d]]_vars

\* a socket joined a room that held a private message of the other role while
\* another socket was in it: its replay is shorter than the log, and
\* user-joined came right after it
C19_Witness ==
  /\ last.op = "join-room"
  /\ hasRoom(rooms, last.roomId)
  /\ LET c == last.sid
         n == Len(inbox[c])
     IN /\ n >= 2
        /\ inbox[c][n].type = "user-joined"
        /\ inbox[c][n - 1].type = "room-history"
        /\ Len(inbox[c][n - 1].messages) > 0
        /\ Len(inbox[c][n - 1].messages) < Len(roomOf(rooms, last.roomId).messages)
        /\ \E d \in Conns \ {c} :
             /\ last.roomId \in joined[d]
             /\ Len(inbox[d]) > 0
             /\ inbox[d][Len(inbox[d])].type = "user-joined"

\* the text holds "@ai", in whatever case
mentionsAi(text) ==
  \E i \in 1..(Len(text) - 2) :
    /\ text[i] = "@"
    /\ text[i + 1] \in {"a", "A"}
    /\ text[i + 2] \in {"i", "I"}

\* C21: a chat-message of a bound socket with "@ai" in it starts exactly one
\* model call, one without starts none, and no other step starts one.
C21_OneCallPerAiMessage ==
  [][IF last'.op = "chat-message" /\ handled'.chats = handled.chats + 1
          /\ hasUser(last'.sid) /\ hasRoom(rooms, last'.roomId)
       THEN LET log2 == roomOf(rooms', last'.roomId).messages
                text == log2[Len(log2)].content
            IN /\ aiCalls \subseteq aiCalls'
               /\ Cardinality(aiCalls' \ aiCalls) = (IF mentionsAi(text) THEN 1 ELSE 0)
       ELSE aiCalls' \subseteq aiCalls]_vars

\* two chat-messages were handled, one with "@ai" and one without, and one
\* model call is in flight
C21_Witness ==
  /\ handled.chats = 2
  /\ Cardinality(aiCalls) = 1
  /\ \E r \in RoomIds :
       /\ hasRoom(rooms, r)
       /\ \E i, j \in DOMAIN roomOf(rooms, r).messages :
            /\ mentionsAi(roomOf(rooms, r).messages[i].content)
            /\ roomOf(rooms, r).messages[j].role \in {"Doctor", "Patient"}
            /\ ~mentionsAi(roomOf(rooms, r).messages[j].content)

\* C22: when the model call of an @ai chat-message fails, the turn completes:
\* the fixed apology is appended as the assistant's message, tagged with the
\* role the requester asked with, and is sent to the requester only; no other
\* socket receives anything, and what the requester receives is an
\* ai-message, not an error.
C22_ApologyOnFailure ==
  [][(last'.op = "ai-reply" /\ last'.outcome = "throw")
     => \E call \in aiCalls \ aiCalls' :
          LET log == roomOf(rooms, call.roomId).messages
              log2 == roomOf(rooms', call.roomId).messages
              reply == log2[Len(log2)]
          IN /\ faults' = faults
             /\ Len(log2) = Len(log) + 1
             /\ reply.role = "AI Assistant"
             /\ reply.content = <<"I'm having trouble responding. Please try again.">>
             /\ reply.forRole =
                  (IF log[call.at].role = "Doctor" THEN "doctor" ELSE "patient")
             /\ \A c \in Conns \ {call.sid} : inbox'[c] = inbox[c]
             /\ inbox'[call.sid] =
                  (IF sockets[call.sid] = "open"
                     THEN Append(inbox[call.sid],
                                 Event("ai-message", roleOf(users, call.sid),
                                       call.roomId, reply, <<>>, <<>>))
                     ELSE inbox[call.sid])]_vars

\* a failed call ended in an apology delivered to the requester while another
\* socket was in the room
C22_Witness ==
  /\ last.op = "ai-reply" /\ last.outcome = "throw"
  /\ sockets[last.sid] = "open"
  /\ Len(inbox[last.sid]) > 0
  /\ inbox[last.sid][Len(inbox[last.sid])].type = "ai-message"
  /\ inbox[last.sid][Len(inbox[last.sid])].msg.content = AiApology
  /\ \E d \in Conns \ {last.sid} : sockets[d] = "open" /\ last.roomId \in joined[d]

\* the label the chat-message handler writes for a sender of this role
roleLabel(role) == IF role = "doctor" THEN "Doctor" ELSE "Patient"

\* a message of the log a user of this role may see: not addressed to another
\* role, and not an "@ai" request written by a user of another role
visibleTo(m, role) ==
  /\ m.forRole \in {NoRole, role}
  /\ ~(m.role # "AI Assistant" /\ m.role # roleLabel(role) /\ mentionsAi(m.content))

\* C23: the conversation context of a call of a requester of role R holds
\* only messages visible to R: none addressed to the other role, and none of
\* the other role's @ai requests.
C23_ContextVisibleOnly ==
  \A call \in aiCalls :
    \A i \in 1..Len(call.prompt.recent) :
      visibleTo(call.prompt.recent[i], call.role)

\* C24: the document context of a call is built per role. A call of a doctor
\* carries, for each file of the room, its name, summary metrics and
\* analysis; a call of any other requester carries the names only, never an
\* analysis or a summary.
C24_DocumentContextPerRole ==
  [][\A call \in aiCalls' \ aiCalls :
       LET files == roomOf(rooms', call.roomId).files
           docs == call.prompt.documents
       IN /\ Len(docs) = Len(files)
          /\ \A i \in 1..Len(files) :
               /\ docs[i].name = files[i].name
               /\ IF call.role = "doctor"
                    THEN /\ docs[i].documentSummary = files[i].documentSummary
                         /\ docs[i].analysis = files[i].analysis
                    ELSE /\ docs[i].documentSummary = <<>>
                         /\ docs[i].analysis = NoText]_vars

\* a patient's call is in flight in a room that has an analysed file
C24_Witness ==
  \E call \in aiCalls :
    /\ call.role = "patient"
    /\ Len(call.prompt.documents) > 0
    /\ hasRoom(rooms, call.roomId)
    /\ \E i \in 1..Len(roomOf(rooms, call.roomId).files) :
         /\ roomOf(rooms, call.roomId).files[i].analysis # NoText
         /\ roomOf(rooms, call.roomId).files[i].documentSummary # <<>>

\* the model calls of the analysis step of an upload
analysisCall(u) == u.pc \in {"temporal", "xai"}

\* C25: an analysed upload uses the comparison prompt when its room already
\* has at least one file and the plain analysis otherwise, and its analysis
\* step makes exactly one model call: when that call returns, with a text or
\* with a failure, no second analysis call of the same upload follows.
C25_TemporalWithOnePriorFile ==
  [][/\ \A u \in uploads' :
          (analysisCall(u) /\ \A v \in uploads : v.id # u.id)
          => u.pc = (IF hasRoom(rooms, u.roomId)
                          /\ Len(roomOf(rooms, u.roomId).files) >= 1
                       THEN "temporal" ELSE "xai")
     /\ \A u \in uploads \ uploads' :
          analysisCall(u)
          => \A v \in uploads' : v.id = u.id => ~analysisCall(v)]_vars

\* C26: when the try block of extractHealthMetrics throws (the model call
\* fails, or its text does not parse), the upload still succeeds: the response
\* is 200, the file is recorded, the upload message is appended to the log and
\* broadcast to the room, and the metrics are the extraction-error structure
\* (no vitals, diagnosis "Analysis Error", no key findings): in the summary
\* stored with the file and, for an upload that found its room when it began,
\* in the room's metrics.
C26_MetricsFailureKeepsUpload ==
  [][(last'.op = "upload" /\ last'.outcome = "throw" /\ hasRoom(rooms, last'.roomId))
     => LET r == last'.roomId
            room == roomOf(rooms, r)
            room2 == roomOf(rooms', r)
            fileMessage == room2.messages[Len(room2.messages)]
        IN /\ last'.status = 200
           /\ hasRoom(rooms', r)
           /\ Len(room2.files) = Len(room.files) + 1
           /\ SubSeq(room2.files, 1, Len(room.files)) = room.files
           /\ Len(room2.messages) = Len(room.messages) + 1
           /\ SubSeq(room2.messages, 1, Len(room.messages)) = room.messages
           /\ fileMessage.isFile
           /\ LET summary == room2.files[Len(room2.files)].documentSummary
              IN /\ summary # <<>>
                 /\ summary[1].diagnosis = "Analysis Error"
                 /\ summary[1].criticalFindings = <<>>
           /\ \A u \in uploads \ uploads' :
                u.inRoom
                => /\ room2.healthMetrics # <<>>
                   /\ room2.healthMetrics[1].vitals = <<>>
                   /\ room2.healthMetrics[1].primary = "Analysis Error"
                   /\ room2.healthMetrics[1].keyFindings = <<>>
           /\ \A c \in Conns :
                r \in joined[c]
                => \E i \in (Len(inbox[c]) + 1)..Len(inbox'[c]) :
                     /\ inbox'[c][i].type = "chat-message"
                     /\ inbox'[c][i].msg = fileMessage]_vars

\* an upload whose metrics extraction failed was answered 200 and is in the
\* files and the log of its room, a socket of the room having got its message
C26_Witness ==
  /\ last.op = "upload" /\ last.outcome = "throw" /\ last.status = 200
  /\ hasRoom(rooms, last.roomId)
  /\ LET room == roomOf(rooms, last.roomId)
     IN /\ Len(room.files) > 0
        /\ room.healthMetrics # <<>>
        /\ room.healthMetrics[1].primary = "Analysis Error"
        /\ \E c \in Conns :
             /\ last.roomId \in joined[c]
             /\ \E i \in 1..Len(inbox[c]) :
                  inbox[c][i].type = "chat-message" /\ inbox[c][i].msg.isFile

\* the reassurance the patient timer of an upload writes
reassurance(m) ==
  /\ m.role = "AI Assistant"
  /\ m.forRole = "patient"
  /\ Len(m.content) > 0 /\ m.content[1] = "received"

\* C27: the reassurance of an upload goes to the uploading patient's socket
\* only: no socket bound as doctor is ever sent it.
C27_ReassuranceToPatientOnly ==
  \A c \in Conns :
    \A i \in 1..Len(inbox[c]) :
      (inbox[c][i].type = "ai-message" /\ reassurance(inbox[c][i].msg))
        => inbox[c][i].asRole # "doctor"

\* the upload notice of the upload that set timer t
noticeOf(m, t) ==
  /\ m.isFile
  /\ m.nickname = t.uploadedBy
  /\ m.content = <<"Uploaded", t.name>>
  /\ m.analysis = t.analysis

\* the messages the timers of the uploads write
timerMessage(m) ==
  /\ m.role = "AI Assistant"
  /\ Len(m.content) > 0
  /\ \/ m.forRole = "doctor" /\ m.content[1] = "Clinical Analysis"
     \/ m.forRole = "patient" /\ m.content[1] = "received"

\* C28: the notice of an upload comes before the analysis message and the
\* reassurance of the same upload. When a timer of an upload appends its
\* message, the upload's notice is in the log already, and the log never has
\* more analysis messages, or more reassurances, than notices before them;
\* the socket that is sent the timer's message has got the notice before, by
\* the broadcast or in the history of its join.
C28_NoticeBeforeTimerMessages ==
  [][\A t \in timers \ timers' :
       (hasRoom(rooms, t.roomId) /\ hasRoom(rooms', t.roomId)
          /\ roomOf(rooms', t.roomId).messages # roomOf(rooms, t.roomId).messages)
       => LET log == roomOf(rooms, t.roomId).messages
              log2 == roomOf(rooms', t.roomId).messages
              forRole == log2[Len(log2)].forRole
          IN /\ Len(log2) = Len(log) + 1
             /\ SubSeq(log2, 1, Len(log)) = log
             /\ timerMessage(log2[Len(log2)])
             /\ \E i \in 1..Len(log) : noticeOf(log[i], t)
             /\ Len(SelectSeq(log2, LAMBDA m : timerMessage(m) /\ m.forRole = forRole))
                  <= Len(SelectSeq(log, LAMBDA m : m.isFile))
             /\ \A c \in Conns :
                  inbox'[c] # inbox[c]
                  => /\ inbox'[c] = Append(inbox[c], inbox'[c][Len(inbox'[c])])
                     /\ inbox'[c][Len(inbox'[c])].type = "ai-message"
                     /\ inbox'[c][Len(inbox'[c])].msg = log2[Len(log2)]
                     /\ \E j \in 1..Len(inbox[c]) :
                          \/ /\ inbox[c][j].type = "chat-message"
                             /\ noticeOf(inbox[c][j].msg, t)
                          \/ /\ inbox[c][j].type = "room-history"
                             /\ \E k \in 1..Len(inbox[c][j].messages) :
                                  noticeOf(inbox[c][j].messages[k], t)]_vars

\* the log of a room holds the notice of an upload, then its reassurance, then
\* its analysis message, and a socket has been sent a timer's message
C28_Witness ==
  \E r \in RoomIds :
    /\ hasRoom(rooms, r)
    /\ LET log == roomOf(rooms, r).messages
       IN \E i, j, k \in 1..Len(log) :
            /\ i < j /\ j < k
            /\ log[i].isFile
            /\ timerMessage(log[j]) /\ log[j].forRole = "patient"
            /\ timerMessage(log[k]) /\ log[k].forRole = "doctor"
    /\ \E c \in Conns :
         \E j \in 1..Len(inbox[c]) :
           inbox[c][j].type = "ai-message" /\ timerMessage(inbox[c][j].msg)

\* the capital of a letter, for the letters the messages write in capitals
capitalOf(ch) ==
  CASE ch = "c" -> "C" [] ch = "p" -> "P" [] ch = "s" -> "S"
    [] ch = "a" -> "A" [] ch = "i" -> "I" [] ch = "d" -> "D"
    [] OTHER -> ch

\* the message has an emergency keyword in it, in small letters or capitals
containsKeyword(message) ==
  \E keyword \in EMERGENCY_KEYWORDS :
    \E i \in 1..(Len(message) - Len(keyword) + 1) :
      \A j \in 1..Len(keyword) :
        message[i + j - 1] \in {keyword[j], capitalOf(keyword[j])}

\* C29: detectEmergency on a message with no emergency keyword in it (in any
\* case) returns isEmergency false without a model call; a model call is made
\* for a message with a keyword only, and when it returns an object with one
\* of the four levels, isEmergency is true exactly for CRITICAL and HIGH.
C29_KeywordThenLevel ==
  /\ \A call \in emergencyCalls : containsKeyword(call.message)
  /\ \A v \in verdicts :
       /\ v.response.kind = "none" <=> ~containsKeyword(v.message)
       /\ ~containsKeyword(v.message) => ~v.result.isEmergency
       /\ (v.response.kind = "object" /\ v.response.level \in Levels)
            => /\ v.result.level = v.response.level
               /\ v.result.isEmergency <=> v.response.level \in {"CRITICAL", "HIGH"}

\* a message without a keyword was dismissed, a keyword in capitals was
\* classified CRITICAL and is an emergency, and one classified LOW or MODERATE
\* is none
C29_Witness ==
  /\ \E v \in verdicts : v.response.kind = "none" /\ ~v.result.isEmergency
  /\ \E v \in verdicts :
       /\ v.message # toLowerCase(v.message)
       /\ v.response.level = "CRITICAL" /\ v.result.isEmergency
  /\ \E v \in verdicts :
       v.response.level \in {"MODERATE", "LOW"} /\ ~v.result.isEmergency

\* the step is a start-video-call (end-video-call) of a socket bound as doctor
\* for an existing room
doctorVideoStep(op) ==
  /\ last'.op = op
  /\ handled'.video = handled.video + 1
  /\ roleOf(users, last'.sid) = "doctor"
  /\ hasRoom(rooms, last'.roomId)

\* every socket of room r is sent one event of this type, and no other socket
\* is sent anything
roomNotified(r, type) ==
  \A c \in Conns :
    IF r \in joined[c]
      THEN /\ Len(inbox'[c]) = Len(inbox[c]) + 1
           /\ SubSeq(inbox'[c], 1, Len(inbox[c])) = inbox[c]
           /\ inbox'[c][Len(inbox'[c])].type = type
           /\ inbox'[c][Len(inbox'[c])].room = r
      ELSE inbox'[c] = inbox[c]

\* C30: start-video-call of a doctor in an existing room leaves the room
\* Active with an empty roster and sends video-call-started to the room;
\* end-video-call of a doctor leaves it Idle with an empty roster and sends
\* video-call-ended to the room. A room begins Idle when it is created, and
\* while it exists no other step changes whether its call is active.
C30_VideoCallTransitions ==
  [][/\ doctorVideoStep("start-video-call")
          => /\ hasRoom(rooms', last'.roomId)
             /\ roomOf(rooms', last'.roomId).videoCallActive
             /\ roomOf(rooms', last'.roomId).videoParticipants = <<>>
             /\ roomNotified(last'.roomId, "video-call-started")
     /\ doctorVideoStep("end-video-call")
          => /\ hasRoom(rooms', last'.roomId)
             /\ ~roomOf(rooms', last'.roomId).videoCallActive
             /\ roomOf(rooms', last'.roomId).videoParticipants = <<>>
             /\ roomNotified(last'.roomId, "video-call-ended")
     /\ \A r \in RoomIds :
          /\ (hasRoom(rooms', r)
                /\ (~hasRoom(rooms, r) \/ (last'.op = "create-room" /\ last'.roomId = r)))
             => /\ ~roomOf(rooms', r).videoCallActive
                /\ roomOf(rooms', r).videoParticipants = <<>>
          /\ (hasRoom(rooms, r) /\ hasRoom(rooms', r)
                /\ ~(last'.op = "create-room" /\ last'.roomId = r)
                /\ roomOf(rooms', r).videoCallActive # roomOf(rooms, r).videoCallActive)
             => /\ last'.roomId = r
                /\ \/ doctorVideoStep("start-video-call")
                   \/ doctorVideoStep("end-video-call")]_vars

\* a doctor ended a call that was started on a roster with a participant in
\* it: a socket of the room was sent the participants' list, then
\* video-call-started, then video-call-ended, and the room is Idle and empty
C30_Witness ==
  /\ last.op = "end-video-call"
  /\ hasRoom(rooms, last.roomId)
  /\ ~roomOf(rooms, last.roomId).videoCallActive
  /\ roomOf(rooms, last.roomId).videoParticipants = <<>>
  /\ \E c \in Conns :
       \E i, j, k \in 1..Len(inbox[c]) :
         /\ i < j /\ j < k
         /\ inbox[c][i].type = "existing-video-participants"
         /\ inbox[c][i].room = last.roomId
         /\ inbox[c][j].type = "video-call-started" /\ inbox[c][j].room = last.roomId
         /\ inbox[c][k].type = "video-call-ended" /\ inbox[c][k].room = last.roomId

\* the peer ids of a roster
peersOf(participants) == {participants[i] : i \in 1..Len(participants)}

\* no peer id is on the roster twice
noDuplicate(participants) ==
  \A i, j \in 1..Len(participants) : participants[i] = participants[j] => i = j

\* C31: join-video-call with peer id p of a bound socket, for an existing
\* room, puts p at the end of the roster when p is not on it and leaves the
\* roster alone when it is; every other socket of the room is sent
\* user-joined-video with p, and the joiner is sent the roster as it was
\* before, without p. No roster ever holds a peer id twice.
C31_JoinVideoRoster ==
  [][/\ (last'.op = "join-video-call" /\ handled'.video = handled.video + 1
          /\ hasUser(last'.sid) /\ hasRoom(rooms, last'.roomId))
        => LET c == last'.sid
               r == last'.roomId
               p == last'.token
               before == roomOf(rooms, r).videoParticipants
               after == roomOf(rooms', r).videoParticipants
               reply == inbox'[c][Len(inbox'[c])]
           IN /\ after = (IF p \in peersOf(before) THEN before ELSE Append(before, p))
              /\ Len(inbox'[c]) = Len(inbox[c]) + 1
              /\ reply.type = "existing-video-participants"
              /\ p \notin peersOf(reply.files)
              /\ reply.files = SelectSeq(before, LAMBDA id : id # p)
              /\ \A d \in Conns \ {c} :
                   IF r \in joined[d]
                     THEN /\ Len(inbox'[d]) = Len(inbox[d]) + 1
                          /\ inbox'[d][Len(inbox'[d])].type = "user-joined-video"
                          /\ inbox'[d][Len(inbox'[d])].files = <<p>>
                     ELSE inbox'[d] = inbox[d]
     /\ \A r \in RoomIds :
          hasRoom(rooms', r) => noDuplicate(roomOf(rooms', r).videoParticipants)]_vars

\* two peers are on the roster after three joins, so one of the joins named a
\* peer that was on the roster; the last joiner was sent the other peer, and
\* another socket of the room was told of the join
C31_Witness ==
  /\ last.op = "join-video-call" /\ handled.video = 3
  /\ hasRoom(rooms, last.roomId)
  /\ Len(roomOf(rooms, last.roomId).videoParticipants) = 2
  /\ LET c == last.sid
     IN /\ Len(inbox[c]) > 0
        /\ inbox[c][Len(inbox[c])].type = "existing-video-participants"
        /\ Len(inbox[c][Len(inbox[c])].files) = 1
        /\ Len(SelectSeq(inbox[c],
                  LAMBDA e : e.type = "existing-video-participants")) = 3
        /\ \E d \in Conns \ {c} :
             /\ Len(inbox[d]) > 0
             /\ inbox[d][Len(inbox[d])].type = "user-joined-video"

\* C32: room ids are unique. A create-room that succeeds yields a room id
\* that no existing room and no invitation has, so it replaces no room, and
\* no two invitations are bound to one room.
C32_RoomIdsUnique ==
  [][/\ (last'.op = "create-room" /\ last'.status = 200
          /\ handled'.creates = handled.creates + 1)
        => /\ ~hasRoom(rooms, last'.roomId)
           /\ \A h \in Hashes :
                roomInvitations[h] # <<>>
                  => roomInvitations[h][1].roomId # last'.roomId
     /\ \A h1, h2 \in Hashes :
          (h1 # h2 /\ roomInvitations'[h1] # <<>> /\ roomInvitations'[h2] # <<>>)
            => roomInvitations'[h1][1].roomId # roomInvitations'[h2][1].roomId]_vars

\* seq is the beginning of seq2
isPrefix(seq, seq2) ==
  /\ Len(seq) <= Len(seq2)
  /\ \A i \in 1..Len(seq) : seq2[i] = seq[i]

\* C33: while a room exists its log and its file list are append-only. Every
\* step other than a create-room or a delete-room keeps every room there is,
\* and the log and the file list of each begin, after the step, with what
\* they held before it.
C33_LogAppendOnly ==
  [][last'.op \notin {"create-room", "delete-room"}
     => \A r \in RoomIds :
          hasRoom(rooms, r)
          => /\ hasRoom(rooms', r)
             /\ isPrefix(roomOf(rooms, r).messages, roomOf(rooms', r).messages)
             /\ isPrefix(roomOf(rooms, r).files, roomOf(rooms', r).files)]_vars

\* a log that holds a user's message, then an upload notice, then a message
\* of the assistant, in a room with a file, after a socket has left
C33_Witness ==
  /\ last.op = "disconnect"
  /\ \E r \in RoomIds :
       /\ hasRoom(rooms, r)
       /\ Len(roomOf(rooms, r).files) > 0
       /\ LET log == roomOf(rooms, r).messages
          IN \E i, j, k \in 1..Len(log) :
               /\ i < j /\ j < k
               /\ log[i].role \in {"Doctor", "Patient"}
               /\ log[j].isFile
               /\ log[k].role = "AI Assistant"

\* the events a room's changes fan out
RoomEvents ==
  {"chat-message", "files-updated", "health-metrics-updated", "user-joined",
   "user-left", "video-call-started", "video-call-ended", "user-joined-video",
   "user-left-video"}

\* C34: a room's events go to the sockets bound to that room only: a socket
\* that is sent an event of room r is, as the step ends, bound to r. A socket
\* that joined another room since gets nothing more of r, and a closed socket
\* gets nothing.
C34_EventsToBoundOnly ==
  [][\A c \in Conns :
       /\ sockets'[c] # "open" => inbox'[c] = <<>>
       /\ \A i \in (Len(inbox[c]) + 1)..Len(inbox'[c]) :
            inbox'[c][i].type \in RoomEvents
              => /\ users'[c] # <<>>
                 /\ users'[c][1].roomId = inbox'[c][i].room]_vars

\* C35: a room whose video call is Idle has an empty roster.
C35_IdleRosterEmpty ==
  \A r \in RoomIds :
    (hasRoom(rooms, r) /\ ~roomOf(rooms, r).videoCallActive)
      => roomOf(rooms, r).videoParticipants = <<>>

\* the events of a socket that name a room in their payload
RoomNamingOps ==
  {"chat-message", "typing", "start-video-call", "end-video-call",
   "join-video-call", "leave-video-call"}

\* the room socket c is bound to, NoRoomId when it is bound to none
boundRoom(c) == IF users[c] = <<>> THEN NoRoomId ELSE users[c][1].roomId

\* C36: a chat-message, typing or video event of a socket changes and
\* notifies the room that socket is bound to and no other: every other room
\* is left as it was, and no socket bound to another room is sent anything.
C36_OwnRoomOnly ==
  [][(last'.op \in RoomNamingOps /\ last'.sid \in Conns)
     => LET c == last'.sid
        IN /\ \A r \in RoomIds : r # boundRoom(c) => rooms'[r] = rooms[r]
           /\ \A d \in Conns \ {c} :
                (users[d] # <<>> /\ boundRoom(d) # boundRoom(c))
                  => inbox'[d] = inbox[d]]_vars

\* the role whose presence slot holds the nickname of bound socket c:
\* NoRole when neither slot of its room does
presenceAs(c) ==
  LET u == users[c][1]
      room == roomOf(rooms, u.roomId)
  IN IF ~hasRoom(rooms, u.roomId) THEN NoRole
     ELSE IF room.patient = u.nickname /\ room.doctor # u.nickname THEN "patient"
     ELSE IF room.doctor = u.nickname /\ room.patient # u.nickname THEN "doctor"
     ELSE NoRole

\* the step is an event `op` of a bound socket whose nickname is in one
\* presence slot of its room, sent for that room
ownRoomStep(op) ==
  /\ last'.op = op
  /\ last'.sid \in Conns
  /\ users[last'.sid] # <<>>
  /\ users[last'.sid][1].roomId = last'.roomId
  /\ presenceAs(last'.sid) # NoRole

\* C37: a bound socket is one role to every operation. The role whose
\* presence slot its join filled is the speaker role of its chat messages,
\* the persona of its @ai calls, and decides whether it may start a video
\* call, whatever role value it joined with.
C37_OneRoleEverywhere ==
  [][/\ ownRoomStep("chat-message")
          => LET c == last'.sid
                 log2 == roomOf(rooms', last'.roomId).messages
             IN /\ log2[Len(log2)].role =
                     (IF presenceAs(c) = "doctor" THEN "Doctor" ELSE "Patient")
                /\ \A call \in aiCalls' \ aiCalls :
                     (call.role = "doctor") <=> (presenceAs(c) = "doctor")
     /\ ownRoomStep("start-video-call")
          => (roomOf(rooms', last'.roomId).videoCallActive
                <=> presenceAs(last'.sid) = "doctor")]_vars

\* C38: the doctor-only analysis message of an upload is written only when
\* the upload was analysed: a doctor timer that appends its message to the log
\* belongs to an upload that has an analysis.
C38_AnalysisMessageNeedsAnalysis ==
  [][\A t \in timers \ timers' :
       (t.kind = "doctor" /\ hasRoom(rooms, t.roomId) /\ hasRoom(rooms', t.roomId)
          /\ roomOf(rooms', t.roomId).messages # roomOf(rooms, t.roomId).messages)
       => t.analysis # NoText]_vars

\* C39: a documentation-generated event reaches only a socket that is bound to
\* the documented room with the role "doctor" when the event is sent
C39_DocumentationToDoctorOnly ==
  [][\A c \in Conns :
       (/\ Len(inbox'[c]) = Len(inbox[c]) + 1
        /\ inbox'[c][Len(inbox'[c])].type = "documentation-generated")
       => /\ hasUser(c)
          /\ userOf(c).role = "doctor"
          /\ userOf(c).roomId = inbox'[c][Len(inbox'[c])].room]_vars


\* C40: the video roster of a room holds peer ids of connections still bound
\* to the room only, so a room that no connection is bound to has an empty roster
C40_RosterOfBoundOnly ==
  \A r \in RoomIds :
    (/\ hasRoom(rooms, r)
     /\ \A c \in Conns : hasUser(c) => userOf(c).roomId # r)
      => roomOf(rooms, r).videoParticipants = <<>>

\* ---------------------------------------------------------- specifications
\* Each specification bounds the requests of each kind it handles.

\* the chat specification: one room, two identities, no uploads
ChatIdentities ==
  {id \in Identities : id.email \in {<<"d", "@", "x">>, <<"p", "@", "x">>}}

NextChat ==
  \/ \E c \in Conns : Connect(c)
  \/ /\ handled.joins < MaxJoins
     /\ \E c \in Conns, ro \in Roles, id \in ChatIdentities :
          JoinRoom(c, 1, id.nickname, ro, id.avatarUrl, id.email)
  \/ \E c \in Conns : Disconnect(c)
  \/ /\ handled.chats < MaxMsgs
     /\ \E c \in Conns, m \in ChatTexts : ChatMessage(c, 1, m)
  \/ \E call \in aiCalls, o \in AiOutcomes : AIResponse(call, o)

SpecChat == Init /\ [][NextChat]_vars

\* the upload specification: one room, sockets that join and leave, one upload
NextUpload ==
  \/ \E c \in Conns : Connect(c)
  \/ /\ handled.joins < MaxJoinsUpload
     /\ \E c \in Conns, ro \in Roles, id \in ChatIdentities :
          JoinRoom(c, 1, id.nickname, ro, id.avatarUrl, id.email)
  \/ \E c \in Conns : Disconnect(c)
  \/ /\ handled.uploads < MaxUploadsJoined
     /\ \E n \in Nicknames, ro \in Roles, ct \in FileContents, f \in FileNames :
          UploadRequest(1, n, ro, ct, f)
  \/ \E u \in uploads, o \in AnalysisOutcomes : AnalysisDone(u, o)
  \/ \E u \in uploads, resp \in MetricsResponses : MetricsDone(u, resp)
  \/ \E t \in timers : TimerFire(t)

SpecUpload == Init /\ [][NextUpload]_vars

\* the metrics specification: one socket in one room, several uploads of one
\* uploader in flight
NextMetrics ==
  \/ \E c \in Conns : Connect(c)
  \/ /\ handled.joins < MaxJoinsMetrics
     /\ \E c \in Conns, ro \in Roles, id \in ChatIdentities :
          JoinRoom(c, 1, id.nickname, ro, id.avatarUrl, id.email)
  \/ /\ handled.uploads < MaxUploads
     /\ \E ro \in Roles, ct \in FileContents, f \in FileNames :
          UploadRequest(1, "bob", ro, ct, f)
  \/ \E u \in uploads, o \in AnalysisOutcomes : AnalysisDone(u, o)
  \/ \E u \in uploads, resp \in MetricsResponses : MetricsDone(u, resp)
  \/ \E t \in timers : TimerFire(t)

SpecMetrics == Init /\ [][NextMetrics]_vars

\* the temporal specification: one room, no socket, and three uploads of
\* texts that are analysed, so that the third finds two files in the room
TemporalContents == {ct \in FileContents : ct.id \in {"report", "line"}}

NextTemporal ==
  \/ /\ handled.creates < MaxCreatesRoom
     /\ CreateRoom(<<"D", "@", "x">>, <<"p", "@", "x">>, "h1")
  \/ /\ handled.uploads < MaxUploadsTemporal
     /\ \E ct \in TemporalContents, f \in FileNames :
          UploadRequest(1, "bob", "patient", ct, f)
  \/ \E u \in uploads, o \in AnalysisOutcomes : AnalysisDone(u, o)
  \/ \E u \in uploads, resp \in MetricsResponses : MetricsDone(u, resp)
  \/ \E t \in timers : TimerFire(t)

SpecTemporal == Init /\ [][NextTemporal]_vars

\* the room specification: invitations, deletion and the video call; no chat
RoomEmails == {<<"D", "@", "x">>, <<"p", "@", "x">>, Undefined}
RoomIdentities == {id \in Identities : id.nickname = "ann"}

NextRoom ==
  \/ \E c \in Conns : Connect(c)
  \/ /\ handled.joins < MaxJoinsRoom
     /\ \E c \in Conns, r \in RoomIds, ro \in Roles, id \in RoomIdentities :
          JoinRoom(c, r, id.nickname, ro, id.avatarUrl, id.email)
  \/ \E c \in Conns : Disconnect(c)
  \/ /\ handled.creates < MaxCreatesRoom
     /\ \E d \in {<<"D", "@", "x">>, Undefined} :
          CreateRoom(d, <<"p", "@", "x">>, "h1")
  \/ /\ handled.http < MaxHttp
     /\ \E t \in Tokens, e \in RoomEmails : ValidateRoom(t, e)
  \/ /\ handled.http < MaxHttp
     /\ \E t \in Tokens, e \in RoomEmails : DeleteRoom(t, e)
  \/ /\ handled.video < MaxVideo
     /\ \E c \in Conns, r \in RoomIds : StartVideoCall(c, r)
  \/ /\ handled.video < MaxVideo
     /\ \E c \in Conns, r \in RoomIds : EndVideoCall(c, r)

SpecRoom == Init /\ [][NextRoom]_vars

\* the room-id specification: two create-room requests while the clock moves
\* or stands still, beside a socket that joins a room and writes to it
NextIds ==
  \/ /\ handled.creates < MaxCreates
     /\ \E h \in Hashes, d \in {<<"D", "@", "x">>, <<"d", "@", "x">>} :
          CreateRoom(d, <<"p", "@", "x">>, h)
  \/ now < MaxClock /\ Tick
  \/ \E c \in Conns : Connect(c)
  \/ /\ handled.joins < MaxJoinsRoom
     /\ \E c \in Conns, r \in RoomIds, ro \in Roles :
          JoinRoom(c, r, "ann", ro, "av1", Undefined)
  \/ /\ handled.chats < MaxMsgsDeletion
     /\ \E c \in Conns, r \in RoomIds : ChatMessage(c, r, <<"h", "i">>)

SpecIds == Init /\ [][NextIds]_vars

\* the video specification: sockets that join room 1, and the four video
\* events for room 1 or for a room that does not exist; POST /api/create-room
\* makes room 1, or replaces it
NextVideo ==
  \/ \E c \in Conns : Connect(c)
  \/ /\ handled.joins < MaxJoinsRoom
     /\ \E c \in Conns, ro \in Roles : JoinRoom(c, 1, "ann", ro, "av1", Undefined)
  \/ /\ handled.creates < MaxCreatesRoom
     /\ CreateRoom(<<"D", "@", "x">>, <<"p", "@", "x">>, "h1")
  \/ /\ handled.video < MaxVideoCall
     /\ \E c \in Conns, r \in RoomIds : StartVideoCall(c, r)
  \/ /\ handled.video < MaxVideoCall
     /\ \E c \in Conns, r \in RoomIds : EndVideoCall(c, r)
  \/ /\ handled.video < MaxVideoCall
     /\ \E c \in Conns, r \in RoomIds, p \in PeerIds : JoinVideoCall(c, r, p)
  \/ /\ handled.video < MaxVideoCall
     /\ \E c \in Conns, r \in RoomIds, p \in PeerIds : LeaveVideoCall(c, r, p)

SpecVideo == Init /\ [][NextVideo]_vars

\* the role values a client may send with join-room: the two roles, and one
\* that is neither
JoinRoles == Roles \cup {"nurse"}

\* the nickname each socket joins with
nicknameOf(c) == IF c = 1 THEN "ann" ELSE "bob"

\* the roles specification: sockets that join room 1 with any role value and
\* then write, ask the assistant, start a video call and leave
NextRoles ==
  \/ \E c \in Conns : Connect(c)
  \/ /\ handled.joins < MaxJoinsRoom
     /\ \E c \in Conns, ro \in JoinRoles :
          JoinRoom(c, 1, nicknameOf(c), ro, "av1", Undefined)
  \/ \E c \in Conns : Disconnect(c)
  \/ /\ handled.chats < MaxMsgsDeletion
     /\ \E c \in Conns, m \in ChatTexts : ChatMessage(c, 1, m)
  \/ \E call \in aiCalls, o \in AiOutcomes : AIResponse(call, o)
  \/ /\ handled.video < MaxVideo
     /\ \E c \in Conns : StartVideoCall(c, 1)

SpecRoles == Init /\ [][NextRoles]_vars

\* the documentation specification: sockets that join either room with either
\* role, write, leave, and ask for the documentation of either room
NextDocs ==
  \/ \E c \in Conns : Connect(c)
  \/ /\ handled.joins < MaxJoinsRoom
     /\ \E c \in Conns, r \in RoomIds, ro \in Roles :
          JoinRoom(c, r, nicknameOf(c), ro, "av1", Undefined)
  \/ \E c \in Conns : Disconnect(c)
  \/ /\ handled.chats < MaxMsgsDeletion
     /\ \E c \in Conns : hasUser(c) /\ ChatMessage(c, userOf(c).roomId, <<"h", "i">>)
  \/ /\ handled.docs < MaxDocs
     /\ \E c \in Conns, r \in RoomIds : RequestDocumentation(c, r)
  \/ \E call \in docCalls, o \in AiOutcomes : DocumentationDone(call, o)

SpecDocs == Init /\ [][NextDocs]_vars

\* the payload specification: two sockets in two rooms, and events of each
\* that name either room
NextPayload ==
  \/ \E c \in Conns : Connect(c)
  \/ /\ handled.joins < MaxJoinsRoom
     /\ \E c \in Conns, r \in RoomIds, ro \in Roles :
          JoinRoom(c, r, "ann", ro, "av1", Undefined)
  \/ /\ handled.chats < MaxMsgsDeletion
     /\ \E c \in Conns, r \in RoomIds : ChatMessage(c, r, <<"h", "i">>)
  \/ /\ handled.typing < MaxTyping
     /\ \E c \in Conns, r \in RoomIds : Typing(c, r)
  \/ /\ handled.video < MaxVideo
     /\ \E c \in Conns, r \in RoomIds : StartVideoCall(c, r)
  \/ /\ handled.video < MaxVideo
     /\ \E c \in Conns, r \in RoomIds : EndVideoCall(c, r)
  \/ /\ handled.video < MaxVideo
     /\ \E c \in Conns, r \in RoomIds, p \in PeerIds : JoinVideoCall(c, r, p)
  \/ /\ handled.video < MaxVideo
     /\ \E c \in Conns, r \in RoomIds, p \in PeerIds : LeaveVideoCall(c, r, p)

SpecPayload == Init /\ [][NextPayload]_vars

\* the re-join specification: sockets that join one room and then another,
\* and write to the room they are bound to
NextRebind ==
  \/ \E c \in Conns : Connect(c)
  \/ /\ handled.joins < MaxJoins
     /\ \E c \in Conns, r \in RoomIds, ro \in Roles :
          JoinRoom(c, r, "ann", ro, "av1", Undefined)
  \/ \E c \in Conns : Disconnect(c)
  \/ /\ handled.chats < MaxMsgsDeletion
     /\ \E c \in Conns :
          hasUser(c) /\ ChatMessage(c, userOf(c).roomId, <<"h", "i">>)

SpecRebind == Init /\ [][NextRebind]_vars

\* the log specification: every operation that writes to a room or reads one,
\* on one room: a join and a disconnect, a chat message with its reply, an
\* upload with its timers, a video event
NextLog ==
  \/ \E c \in Conns : Connect(c)
  \/ /\ handled.joins < MaxJoinsDeletion
     /\ \E c \in Conns, ro \in Roles : JoinRoom(c, 1, "bob", ro, "av1", Undefined)
  \/ \E c \in Conns : Disconnect(c)
  \/ /\ handled.chats < MaxMsgsDeletion
     /\ \E c \in Conns, m \in ChatTexts : ChatMessage(c, 1, m)
  \/ \E call \in aiCalls, o \in AiOutcomes : AIResponse(call, o)
  \/ /\ handled.uploads < MaxUploadsJoined
     /\ \E ct \in TemporalContents, f \in FileNames :
          UploadRequest(1, "bob", "patient", ct, f)
  \/ \E u \in uploads, o \in AnalysisOutcomes : AnalysisDone(u, o)
  \/ \E u \in uploads, resp \in MetricsResponses : MetricsDone(u, resp)
  \/ \E t \in timers : TimerFire(t)
  \/ /\ handled.video < MaxVideo
     /\ \E c \in Conns : StartVideoCall(c, 1)
  \/ /\ handled.video < MaxVideo
     /\ \E c \in Conns : EndVideoCall(c, 1)
  \/ /\ handled.video < MaxVideo
     /\ \E c \in Conns, p \in PeerIds : JoinVideoCall(c, 1, p)
  \/ /\ handled.video < MaxVideo
     /\ \E c \in Conns, p \in PeerIds : LeaveVideoCall(c, 1, p)

SpecLog == Init /\ [][NextLog]_vars

\* the deletion specification: one invited room that its doctor deletes while
\* a chat turn or an upload of it is in flight
NextDeletion ==
  \/ \E c \in Conns : Connect(c)
  \/ /\ handled.creates < MaxCreatesRoom
     /\ CreateRoom(<<"D", "@", "x">>, <<"p", "@", "x">>, "h1")
  \/ /\ handled.joins < MaxJoinsDeletion
     /\ \E c \in Conns, ro \in Roles, id \in ChatIdentities :
          JoinRoom(c, 1, id.nickname, ro, id.avatarUrl, id.email)
  \/ /\ handled.chats < MaxMsgsDeletion
     /\ \E c \in Conns, m \in ChatTexts : ChatMessage(c, 1, m)
  \/ \E call \in aiCalls, o \in AiOutcomes : AIResponse(call, o)
  \/ /\ handled.uploads < MaxUploadsJoined
     /\ \E ro \in Roles, ct \in FileContents, f \in FileNames :
          UploadRequest(1, "bob", ro, ct, f)
  \/ \E u \in uploads, o \in AnalysisOutcomes : AnalysisDone(u, o)
  \/ \E u \in uploads, resp \in MetricsResponses : MetricsDone(u, resp)
  \/ \E t \in timers : TimerFire(t)
  \/ /\ handled.http < MaxHttp
     /\ DeleteRoom("h1", <<"D", "@", "x">>)

SpecDeletion == Init /\ [][NextDeletion]_vars

\* the limiter specification: checks of two addresses while the clock moves
NextLimiter ==
  \/ /\ handled.checks < MaxChecks
     /\ \E ip \in Ips : CheckSocketRateLimit(ip)
  \/ now < MaxRateClock /\ Tick

SpecLimiter == Init /\ [][NextLimiter]_vars

\* the triage specification: detectEmergency applied to messages
NextTriage ==
  \/ /\ handled.scans < MaxScans
     /\ \E m \in TriageTexts, ro \in Roles : DetectEmergency(m, ro)
  \/ \E call \in emergencyCalls, resp \in ClassifierResponses :
       ClassifierDone(call, resp)

SpecTriage == Init /\ [][NextTriage]_vars

Next ==
  \/ \E c \in Conns : Connect(c)
  \/ /\ handled.joins < MaxJoins
     /\ \E c \in Conns, r \in RoomIds, ro \in Roles, id \in Identities :
          JoinRoom(c, r, id.nickname, ro, id.avatarUrl, id.email)
  \/ \E c \in Conns : Disconnect(c)
  \/ /\ handled.chats < MaxMsgs
     /\ \E c \in Conns, r \in RoomIds, m \in ChatTexts : ChatMessage(c, r, m)
  \/ \E call \in aiCalls, o \in AiOutcomes : AIResponse(call, o)
  \/ /\ handled.uploads < MaxUploads
     /\ \E r \in RoomIds, n \in Nicknames, ro \in Roles, ct \in FileContents, f \in FileNames :
          UploadRequest(r, n, ro, ct, f)
  \/ \E u \in uploads, o \in AnalysisOutcomes : AnalysisDone(u, o)
  \/ \E u \in uploads, resp \in MetricsResponses : MetricsDone(u, resp)
  \/ \E t \in timers : TimerFire(t)
  \/ /\ handled.creates < MaxCreates
     /\ \E d \in Emails \cup {Undefined}, p \in Emails \cup {Undefined}, h \in Hashes :
          CreateRoom(d, p, h)
  \/ now < MaxClock /\ Tick
  \/ /\ handled.http < MaxHttp
     /\ \E t \in Tokens, e \in Emails \cup {Undefined} : ValidateRoom(t, e)
  \/ /\ handled.http < MaxHttp
     /\ \E t \in Tokens, e \in Emails \cup {Undefined} : DeleteRoom(t, e)
  \/ /\ handled.video < MaxVideo
     /\ \E c \in Conns, r \in RoomIds : StartVideoCall(c, r)
  \/ /\ handled.video < MaxVideo
     /\ \E c \in Conns, r \in RoomIds : EndVideoCall(c, r)
  \/ /\ handled.video < MaxVideo
     /\ \E c \in Conns, r \in RoomIds, p \in PeerIds : JoinVideoCall(c, r, p)
  \/ /\ handled.video < MaxVideo
     /\ \E c \in Conns, r \in RoomIds, p \in PeerIds : LeaveVideoCall(c, r, p)
  \/ /\ handled.typing < MaxTyping
     /\ \E c \in Conns, r \in RoomIds : Typing(c, r)
  \/ /\ handled.docs < MaxDocs
     /\ \E c \in Conns, r \in RoomIds : RequestDocumentation(c, r)
  \/ \E call \in docCalls, o \in AiOutcomes : DocumentationDone(call, o)

Spec == Init /\ [][Next]_vars
====
